---------------------------- MODULE Spec2Model ----------------------------
(* A model of llmstxt-social's core pipeline: the crawlers                  *)
(* (llmstxt_core/crawler.py, crawler_playwright.py), the charity generator  *)
(* (generator.py), the validator (validator.py) and the assessor            *)
(* (assessor.py).                                                           *)
EXTENDS Integers, Sequences, FiniteSets, TLC

(***************************************************************************)
(* Bounds of the model                                                     *)
(***************************************************************************)
\* internal URLs of the crawled site are 1..NumUrls, 1 is the start URL
NumUrls == 3
\* max_pages is drawn from 0..MaxPagesCap
MaxPagesCap == 2
\* a parsed sitemap lists at most this many page URLs
MaxSitemapLen == 2

(***************************************************************************)
(* Program constants                                                       *)
(***************************************************************************)
\* crawler.py:190   max_depth = 2
max_depth == 2
\* crawler.py:192   len(urls) < self.max_pages * 2
DiscoverFactor == 2
\* crawler.py:121-125   three well-known sitemap locations
HttpSitemapLocations == 3
\* crawler_playwright.py:112-115   two well-known sitemap locations
PlaywrightSitemapLocations == 2
\* the status code of a successful response
HTTP_OK == 200
\* a status code of an unsuccessful response
HTTP_NOT_FOUND == 404

(***************************************************************************)
(* General helpers                                                         *)
(***************************************************************************)
Take(s, n) == SubSeq(s, 1, IF n < Len(s) THEN n ELSE Len(s))

Range(s) == {s[i] : i \in 1..Len(s)}

SeqsUpTo(S, n) == UNION {[1..k -> S] : k \in 0..n}

\* every ordering of a finite set: what list(a_set) may return
Orderings(S) ==
    {s \in [1..Cardinality(S) -> S] : \A i, j \in 1..Cardinality(S) : s[i] = s[j] => i = j}

\* the elements of an integer set in ascending order
RECURSIVE Ascending(_)
Ascending(S) ==
    IF S = {} THEN <<>>
    ELSE LET m == CHOOSE x \in S : \A y \in S : x <= y
         IN  <<m>> \o Ascending(S \ {m})

VARIABLES
    \* ---- crawler (WebCrawler / PlaywrightCrawler) ----
    mode,            \* "http" (WebCrawler) or "playwright" (PlaywrightCrawler)
    max_pages,       \* self.max_pages
    respect_robots,  \* self.respect_robots
    host_down,       \* environment: every request to the site raises
    robot_parser,    \* self.robot_parser: NoParser or the parsed disallow set
    pc,              \* position inside crawl_site
    sitemap_loc,     \* index into sitemap_locations
    sitemap_urls,    \* result.sitemap_urls
    d_urls,          \* _discover_urls: urls
    d_queue,         \* _discover_urls: queue
    d_next,          \* _discover_urls: next_queue
    d_depth,         \* _discover_urls: depth
    d_i,             \* _discover_urls: position of the for loop in queue
    visited_urls,    \* self.visited_urls
    urls_to_crawl,   \* crawl_site: urls_to_crawl
    idx,             \* crawl_site: position of the page loop
    pages,           \* result.pages
    requested,       \* page URLs requested so far (discovery and page loop)
    raised,          \* an exception has propagated out of crawl_site
    caught_at,       \* history: len(result.pages) when the page loop last caught
                     \* a request's exception, -1 before
    \* ---- documents (generator, validator, assessor) ----
    doc_pc,          \* position in the document pipeline
    doc_template,    \* the template argument
    doc_content,     \* the llms.txt text
    validation,      \* the ValidationResult, NoResult before validate_llmstxt
    gen_input,       \* the arguments of generate_llmstxt, NoResult when unused
    assessment,      \* the AssessmentResult, NoResult before assess
    before_edit,     \* history: the text and its AssessmentResult before a
                     \* section was removed from the text, NoResult before
    removed,         \* history: the name of the removed section, <<>> before
    \* ---- page classification (extractor) ----
    classify_input,  \* the arguments of classify_page_type, NoResult when unused
    page_type,       \* what the calls of classify_page_type returned, in order
    \* ---- grades and the stored job (api, cli) ----
    assessment_result, \* the AssessmentResult handed to api and cli, NoResult
                       \* when unused
    job,             \* the GenerationJob row: assessment_json, dismissed_findings
                     \* and the number of dismiss requests served; NoResult
                     \* before the paid task stored it
    grades,          \* the grade the service returned and the cli printed
    response,        \* status of the last dismiss-findings response, 0 before
    \* ---- assessor: AI quality analysis and recommendations ----
    ai_response,     \* what the LLM client does when called, NoResult when the
                     \* assessor has no client
    rec_input,       \* the arguments of _generate_recommendations, NoResult
                     \* when unused
    rec_result,      \* [recommendations |-> what _generate_recommendations
                     \* returned], NoResult before
    \* ---- crawler: sitemap indexes and rate limiting ----
    sm_site,         \* environment: the sitemap documents the site serves,
                     \* NoResult when unused
    sm_stack,        \* the active calls of _parse_sitemap, outermost first
    sm_entry,        \* history: the sitemap the outermost call parsed, 0 before
    sm_fetched,      \* history: the sitemaps requested, in order
    sm_overflowed,   \* history: a RecursionError was raised and swallowed
    unslept,         \* a page was requested and no rate_limit sleep followed yet
    back_to_back,    \* history: a page was requested while unslept held
    \* ---- assessor: enrichment data ----
    enrichment_data, \* the CharityData record given to assess, NoResult when
                     \* none is given
    \* ---- api: tables, task queue, requests and tasks in flight ----
    generation_jobs, \* the committed rows of table generation_jobs, in order
                     \* of commit
    celery_queue,    \* the task messages sent with .delay() and not yet taken
                     \* by a worker, in order
    users,           \* the emails of the committed rows of table users
    magic_link_tokens, \* the committed rows of table magic_link_tokens
    calls,           \* the request handlers and tasks in flight or finished:
                     \* each with its position (pc) and local variables
    api_log          \* history: what the finished calls did, in order

sitemapVars == <<sm_site, sm_stack, sm_entry, sm_fetched, sm_overflowed>>

rateVars == <<unslept, back_to_back>>

crawlVars == <<mode, max_pages, respect_robots, host_down, robot_parser, pc,
               sitemap_loc, sitemap_urls, d_urls, d_queue, d_next, d_depth, d_i,
               visited_urls, urls_to_crawl, idx, pages, requested, raised, caught_at,
               sitemapVars, rateVars>>

docVars == <<doc_pc, doc_template, doc_content, validation, gen_input,
             assessment, before_edit, removed>>

classifyVars == <<classify_input, page_type>>

jobVars == <<assessment_result, job, grades, response>>

recVars == <<ai_response, rec_input, rec_result>>

sizeVars == <<enrichment_data>>

apiVars == <<generation_jobs, celery_queue, users, magic_link_tokens, calls, api_log>>

extVars == <<classifyVars, jobVars, recVars, sizeVars, apiVars>>

vars == <<crawlVars, docVars, extVars>>

NoResult == [none |-> TRUE]

\* no page is being classified
ClassifyIdle ==
    /\ classify_input = NoResult
    /\ page_type = <<>>

\* nothing but the crawler and the document pipeline is in use
\* no assessment is being graded or stored
JobIdle ==
    /\ assessment_result = NoResult
    /\ job = NoResult
    /\ grades = NoResult
    /\ response = 0

\* no recommendations are being generated, the assessor has no LLM client
RecIdle ==
    /\ ai_response = NoResult
    /\ rec_input = NoResult
    /\ rec_result = NoResult

\* no sitemap index is being parsed
SitemapIdle ==
    /\ sm_site = NoResult
    /\ sm_stack = <<>>
    /\ sm_entry = 0
    /\ sm_fetched = <<>>
    /\ sm_overflowed = FALSE

\* no page has been requested
RateIdle ==
    /\ unslept = FALSE
    /\ back_to_back = FALSE

\* the assessor is given no enrichment data
SizeIdle == enrichment_data = NoResult

\* the api has no rows, no queued task and no call
ApiIdle ==
    /\ generation_jobs = <<>>
    /\ celery_queue = <<>>
    /\ users = {}
    /\ magic_link_tokens = <<>>
    /\ calls = <<>>
    /\ api_log = <<>>

ExtIdle == ClassifyIdle /\ JobIdle /\ RecIdle /\ SizeIdle /\ ApiIdle

(***************************************************************************)
(* The site: what the crawler's requests can return                        *)
(***************************************************************************)
StartUrl == 1
InternalUrls == 1..NumUrls
\* 0 stands for a URL on another host
ExternalUrl == 0
AllUrls == InternalUrls \cup {ExternalUrl}

NoParser == [parsed |-> FALSE, disallow |-> {}]

\* A response to a page request: an exception (timeout, DNS, connection), or
\* a status code with a content-type that is text/html or not.
Exc == [kind |-> "exception", status |-> 0, html |-> FALSE]
PageResponses ==
    {Exc} \cup [kind : {"response"}, status : {HTTP_OK, HTTP_NOT_FOUND}, html : BOOLEAN]

\* the responses the environment can give in this run
Answers(all) == IF host_down THEN {Exc} ELSE all

\* crawler.py:236-240 / crawler_playwright.py:213-217
_is_internal_url(u) == u \in InternalUrls

\* crawler.py:242-246 / crawler_playwright.py:219-223
_can_fetch(u) ==
    IF ~respect_robots \/ ~robot_parser.parsed THEN TRUE
    ELSE u \notin robot_parser.disallow


(***************************************************************************)
(* Fetchers                                                                *)
(***************************************************************************)
NoPage == [kind |-> "none"]
Raise == [kind |-> "raise"]
MkPage(u, resp) ==
    [kind |-> "page", url |-> u, status_code |-> resp.status, html_ct |-> resp.html]

\* _fetch_page without its try/except: the request's exception propagates
_fetch_page_unguarded(u, resp) ==
    IF resp.kind = "exception" THEN Raise
    ELSE IF ~resp.html THEN NoPage
    ELSE IF resp.status # HTTP_OK THEN NoPage
    ELSE MkPage(u, resp)

\* crawler.py:248-285   WebCrawler._fetch_page
_fetch_page(u, resp) ==
    IF resp.kind = "exception" THEN NoPage               \* except Exception: return None
    ELSE IF ~resp.html THEN NoPage                       \* "text/html" not in content_type
    ELSE IF resp.status # HTTP_OK THEN NoPage            \* status_code != 200
    ELSE MkPage(u, resp)

\* crawler_playwright.py:177-211   PlaywrightCrawler._fetch_page_playwright
\* (no look at the content-type of the response)
_fetch_page_playwright(u, resp) ==
    IF resp.kind = "exception" THEN NoPage               \* except Exception: return None
    ELSE IF resp.status # HTTP_OK THEN NoPage            \* not response or status != 200
    ELSE MkPage(u, resp)

FetchPage(u, resp) ==
    IF mode = "http" THEN _fetch_page(u, resp) ELSE _fetch_page_playwright(u, resp)

(***************************************************************************)
(* crawl_site, step 1: robots.txt                                          *)
(***************************************************************************)
AfterRobots == IF mode = "http" THEN "sitemap" ELSE "pw_discover"

\* crawler.py:66-68,105-117 / crawler_playwright.py:54-56,91-106
FetchRobotsTxt ==
    /\ pc = "robots"
    /\ IF ~respect_robots
       THEN robot_parser' = robot_parser
       ELSE \E resp \in Answers(PageResponses), D \in SUBSET InternalUrls :
              robot_parser' =
                  IF resp.kind = "response" /\ resp.status = HTTP_OK
                  THEN [parsed |-> TRUE, disallow |-> D]
                  ELSE NoParser
    /\ pc' = AfterRobots
    /\ sitemap_loc' = 1
    /\ UNCHANGED <<docVars, extVars, sitemapVars, rateVars>>
    /\ UNCHANGED <<mode, max_pages, respect_robots, host_down, sitemap_urls, d_urls,
                   d_queue, d_next, d_depth, d_i, visited_urls, urls_to_crawl, idx,
                   pages, requested, raised, caught_at>>

(***************************************************************************)
(* crawl_site, step 2: sitemap                                             *)
(***************************************************************************)
SitemapLocations ==
    IF mode = "http" THEN HttpSitemapLocations ELSE PlaywrightSitemapLocations

\* crawler.py:72-81: the sitemap's URLs, cut to max_pages, or link discovery;
\* crawler_playwright.py:63-69: discovered URLs plus the sitemap's,
\* de-duplicated through a set (any order) and cut to max_pages.
SitemapDone(s) ==
    /\ sitemap_urls' = s
    /\ IF mode = "http"
       THEN IF s # <<>>
            THEN /\ urls_to_crawl' = Take(s, max_pages)
                 /\ pc' = "fetch"
                 /\ idx' = 1
                 /\ UNCHANGED <<d_urls, d_queue, d_depth>>
            ELSE /\ pc' = "discover_while"
                 /\ d_urls' = {StartUrl}
                 /\ d_queue' = <<StartUrl>>
                 /\ d_depth' = 0
                 /\ UNCHANGED <<urls_to_crawl, idx>>
       ELSE /\ \E o \in Orderings(d_urls \cup Range(s)) :
                  urls_to_crawl' = Take(o, max_pages)
            /\ pc' = "fetch"
            /\ idx' = 1
            /\ UNCHANGED <<d_urls, d_queue, d_depth>>

\* crawler.py:119-135 / crawler_playwright.py:108-126: one well-known location
FetchSitemap ==
    /\ pc = "sitemap"
    /\ \E resp \in Answers(PageResponses), s \in SeqsUpTo(AllUrls, MaxSitemapLen) :
          IF resp.kind = "response" /\ resp.status = HTTP_OK
          THEN SitemapDone(s) /\ UNCHANGED sitemap_loc
          ELSE IF sitemap_loc < SitemapLocations
               THEN /\ sitemap_loc' = sitemap_loc + 1
                    /\ UNCHANGED <<pc, sitemap_urls, urls_to_crawl, idx, d_urls,
                                   d_queue, d_depth>>
               ELSE SitemapDone(<<>>) /\ UNCHANGED sitemap_loc
    /\ UNCHANGED <<docVars, extVars, sitemapVars, rateVars>>
    /\ UNCHANGED <<mode, max_pages, respect_robots, host_down, robot_parser, d_next,
                   d_i, visited_urls, pages, requested, raised, caught_at>>

(***************************************************************************)
(* crawl_site, step 3: link discovery                                      *)
(***************************************************************************)
\* crawler.py:192: the while condition of _discover_urls
DiscoverContinues ==
    /\ d_queue # <<>>
    /\ d_depth < max_depth
    /\ Cardinality(d_urls) < max_pages * DiscoverFactor

\* crawler.py:192-193,234: enter a level, or return list(urls)
DiscoverWhile ==
    /\ pc = "discover_while"
    /\ IF DiscoverContinues
       THEN /\ pc' = "discover_for"
            /\ d_next' = <<>>
            /\ d_i' = 1
            /\ UNCHANGED <<urls_to_crawl, idx>>
       ELSE /\ \E o \in Orderings(d_urls) : urls_to_crawl' = o
            /\ pc' = "fetch"
            /\ idx' = 1
            /\ UNCHANGED <<d_next, d_i>>
    /\ UNCHANGED <<docVars, extVars, sitemapVars, rateVars>>
    /\ UNCHANGED <<mode, max_pages, respect_robots, host_down, robot_parser,
                   sitemap_loc, sitemap_urls, d_urls, d_queue, d_depth, visited_urls,
                   pages, requested, raised, caught_at>>

\* crawler.py:203-229: asyncio.sleep(self.rate_limit) is the last statement of
\* the try block; "continue" on a status other than 200, on a content-type
\* other than text/html and in the except clause goes to the next url without it
DiscoverySleeps(resp) ==
    resp.kind = "response" /\ resp.status = HTTP_OK /\ resp.html

\* crawler.py:195-229: one url of the queue.  links are the hrefs of the page
\* whose URL does not end in a resource extension.
DiscoverVisit ==
    /\ pc = "discover_for"
    /\ d_i <= Len(d_queue)
    /\ LET u == d_queue[d_i] IN
       IF u \in visited_urls
       THEN UNCHANGED <<visited_urls, requested, d_urls, d_next, rateVars>>
       ELSE /\ visited_urls' = visited_urls \cup {u}
            /\ requested' = requested \cup {u}
            /\ back_to_back' = (back_to_back \/ unslept)
            /\ \E resp \in Answers(PageResponses), links \in SUBSET AllUrls :
                  /\ unslept' = ~DiscoverySleeps(resp)
                  /\ IF resp.kind = "response" /\ resp.status = HTTP_OK /\ resp.html
                     THEN LET new == {l \in links : _is_internal_url(l) /\ l \notin d_urls}
                          IN  /\ d_urls' = d_urls \cup new
                              /\ d_next' = d_next \o Ascending(new)
                     ELSE UNCHANGED <<d_urls, d_next>>
    /\ d_i' = d_i + 1
    /\ UNCHANGED <<docVars, extVars, sitemapVars>>
    /\ UNCHANGED <<mode, max_pages, respect_robots, host_down, robot_parser, pc,
                   sitemap_loc, sitemap_urls, d_queue, d_depth, urls_to_crawl, idx,
                   pages, raised, caught_at>>

\* crawler.py:231-232: queue = next_queue; depth += 1
DiscoverEndLevel ==
    /\ pc = "discover_for"
    /\ d_i > Len(d_queue)
    /\ d_queue' = d_next
    /\ d_depth' = d_depth + 1
    /\ pc' = "discover_while"
    /\ UNCHANGED <<docVars, extVars, sitemapVars, rateVars>>
    /\ UNCHANGED <<mode, max_pages, respect_robots, host_down, robot_parser,
                   sitemap_loc, sitemap_urls, d_urls, d_next, d_i, visited_urls,
                   urls_to_crawl, idx, pages, requested, raised, caught_at>>

\* crawler_playwright.py:60,140-175: render the start page and take its links
\* (neither robots.txt nor the response's status is looked at; the wait that
\* follows the request, line 154, is two seconds whatever rate_limit is)
DiscoverPlaywright ==
    /\ pc = "pw_discover"
    /\ requested' = requested \cup {StartUrl}
    /\ \E resp \in Answers(PageResponses), links \in SUBSET AllUrls :
          d_urls' = IF resp.kind = "exception" THEN {StartUrl}
                    ELSE {StartUrl} \cup {l \in links : _is_internal_url(l)}
    /\ pc' = "sitemap"
    /\ back_to_back' = (back_to_back \/ unslept)
    /\ unslept' = TRUE
    /\ UNCHANGED <<docVars, extVars, sitemapVars>>
    /\ UNCHANGED <<mode, max_pages, respect_robots, host_down, robot_parser,
                   sitemap_loc, sitemap_urls, d_queue, d_next, d_depth, d_i,
                   visited_urls, urls_to_crawl, idx, pages, raised, caught_at>>

(***************************************************************************)
(* crawl_site, step 4: the page loop                                       *)
(***************************************************************************)
\* crawler.py:85 iterates urls_to_crawl[:self.max_pages];
\* crawler_playwright.py:72 iterates urls_to_crawl (cut at line 69)
LoopUrls == IF mode = "http" THEN Take(urls_to_crawl, max_pages) ELSE urls_to_crawl

\* the loop over every candidate, with neither the slice nor the break
PageLoopContinuesUncapped == idx <= Len(urls_to_crawl)

\* crawler.py:85-87 / crawler_playwright.py:72-74
PageLoopContinues == idx <= Len(LoopUrls) /\ Len(pages) < max_pages

\* crawler.py:89-101 / crawler_playwright.py:76-84: one candidate URL; the
\* rate_limit sleep follows every request of the loop that returned
FetchPageStep ==
    /\ pc = "fetch"
    /\ PageLoopContinues
    /\ LET u == urls_to_crawl[idx] IN
       IF ~_can_fetch(u)
       THEN /\ idx' = idx + 1
            /\ UNCHANGED <<pc, pages, requested, raised, caught_at, rateVars>>
       ELSE /\ requested' = requested \cup {u}
            /\ back_to_back' = (back_to_back \/ unslept)
            /\ \E resp \in Answers(PageResponses) :
                  LET r == FetchPage(u, resp) IN
                  IF r.kind = "raise"
                  THEN /\ raised' = TRUE
                       /\ pc' = "done"
                       /\ unslept' = TRUE
                       /\ UNCHANGED <<pages, idx, caught_at>>
                  ELSE /\ unslept' = FALSE
                       /\ pages' = IF r.kind = "page"
                                   THEN Append(pages, [url |-> r.url,
                                                       status_code |-> r.status_code,
                                                       html_ct |-> r.html_ct])
                                   ELSE pages
                       /\ idx' = idx + 1
                       /\ caught_at' = IF resp.kind = "exception" THEN Len(pages)
                                       ELSE caught_at
                       /\ UNCHANGED <<pc, raised>>
    /\ UNCHANGED <<docVars, extVars, sitemapVars>>
    /\ UNCHANGED <<mode, max_pages, respect_robots, host_down, robot_parser,
                   sitemap_loc, sitemap_urls, d_urls, d_queue, d_next, d_depth, d_i,
                   visited_urls, urls_to_crawl>>

\* crawler.py:103 / crawler_playwright.py:89: return result
ReturnResult ==
    /\ pc = "fetch"
    /\ ~PageLoopContinues
    /\ pc' = "done"
    /\ UNCHANGED <<docVars, extVars, sitemapVars, rateVars>>
    /\ UNCHANGED <<mode, max_pages, respect_robots, host_down, robot_parser,
                   sitemap_loc, sitemap_urls, d_urls, d_queue, d_next, d_depth, d_i,
                   visited_urls, urls_to_crawl, idx, pages, requested, raised, caught_at>>

(***************************************************************************)
(* The crawl specification                                                 *)
(***************************************************************************)
\* crawler.py:32-44,59 / crawler_playwright.py:17-32,47
InitCrawl ==
    /\ mode \in {"http", "playwright"}
    /\ max_pages \in 0..MaxPagesCap
    /\ respect_robots \in BOOLEAN
    /\ host_down \in BOOLEAN
    /\ robot_parser = NoParser
    /\ pc = "robots"
    /\ sitemap_loc = 1
    /\ sitemap_urls = <<>>
    /\ d_urls = {StartUrl}
    /\ d_queue = <<>>
    /\ d_next = <<>>
    /\ d_depth = 0
    /\ d_i = 1
    /\ visited_urls = {}
    /\ urls_to_crawl = <<>>
    /\ idx = 1
    /\ pages = <<>>
    /\ requested = {}
    /\ raised = FALSE
    /\ caught_at = -1
    /\ SitemapIdle
    /\ RateIdle
    /\ doc_pc = "idle"
    /\ doc_template = "charity"
    /\ doc_content = <<>>
    /\ validation = NoResult
    /\ gen_input = NoResult
    /\ assessment = NoResult
    /\ before_edit = NoResult
    /\ removed = <<>>
    /\ ExtIdle

NextCrawl ==
    \/ FetchRobotsTxt
    \/ FetchSitemap
    \/ DiscoverWhile
    \/ DiscoverVisit
    \/ DiscoverEndLevel
    \/ DiscoverPlaywright
    \/ FetchPageStep
    \/ ReturnResult

SpecCrawl == InitCrawl /\ [][NextCrawl]_vars

(***************************************************************************)
(* Claims about the crawlers                                               *)
(***************************************************************************)
\* C1: at every point of a crawl, in either crawler and for every max_pages,
\* result.pages holds at most max_pages pages.
C1_PageCap == Len(pages) <= max_pages

\* C1 witness: a finished crawl that filled the cap while more candidates
\* than max_pages were known.
C1_Witness ==
    /\ pc = "done"
    /\ max_pages >= 1
    /\ Len(pages) = max_pages
    /\ Len(urls_to_crawl) > max_pages

\* C2: every page of result.pages, in either fetch mode, comes from a
\* response with status 200 and an HTML content-type.
C2_PagesAre200Html ==
    \A i \in 1..Len(pages) : pages[i].status_code = HTTP_OK /\ pages[i].html_ct

\* C3: with respect_robots set and robots.txt parsed, WebCrawler never
\* requests a page URL that robots.txt disallows, in link discovery or in the
\* page loop.
C3_NeverRequestsDisallowed ==
    (mode = "http" /\ respect_robots /\ robot_parser.parsed)
        => \A u \in requested : u \notin robot_parser.disallow

CandidateCount ==
    IF mode = "http" /\ sitemap_urls # <<>> THEN Len(sitemap_urls)
    ELSE Len(urls_to_crawl)

\* C5: the page loop stops only when max_pages pages are collected or every
\* candidate URL has been considered.
C5_TriesLaterCandidates ==
    pc = "done" => (Len(pages) >= max_pages \/ idx > CandidateCount)

(***************************************************************************)
(* Text.  A Python str is a sequence of tokens: the characters that the    *)
(* code looks at ("#", " ", ">", "-", "[", "]", "(", ")", "@", "\n") are   *)
(* tokens of their own, a run of other characters (a word, a URL) is one   *)
(* token.                                                                  *)
(***************************************************************************)
NL == "\n"

IsSpace(t) == t \in {" ", "\t", NL}

\* str.lower() of a word; the words with capitals that occur in the texts
Lower(t) ==
    CASE t = "A" -> "a"
      [] t = "AI" -> "ai"
      [] t = "About" -> "about"
      [] t = "Achieved" -> "achieved"
      [] t = "Action" -> "action"
      [] t = "Add" -> "add"
      [] t = "Additional" -> "additional"
      [] t = "Advice" -> "advice"
      [] t = "Always" -> "always"
      [] t = "Annual" -> "annual"
      [] t = "Applicants" -> "applicants"
      [] t = "Apply" -> "apply"
      [] t = "Are" -> "are"
      [] t = "Beneficiaries" -> "beneficiaries"
      [] t = "Charitable" -> "charitable"
      [] t = "Charity" -> "charity"
      [] t = "Contact" -> "contact"
      [] t = "Customers" -> "customers"
      [] t = "Direct" -> "direct"
      [] t = "Do" -> "do"
      [] t = "Donors" -> "donors"
      [] t = "Emphasize" -> "emphasize"
      [] t = "Events" -> "events"
      [] t = "Fewer" -> "fewer"
      [] t = "Focus" -> "focus"
      [] t = "For" -> "for"
      [] t = "Free" -> "free"
      [] t = "Fund" -> "fund"
      [] t = "Funders" -> "funders"
      [] t = "Funding" -> "funding"
      [] t = "General" -> "general"
      [] t = "Geography" -> "geography"
      [] t = "Get" -> "get"
      [] t = "Grants" -> "grants"
      [] t = "Heading" -> "heading"
      [] t = "Help" -> "help"
      [] t = "Helping" -> "helping"
      [] t = "Highlight" -> "highlight"
      [] t = "Home" -> "home"
      [] t = "Homelessness" -> "homelessness"
      [] t = "Homepage" -> "homepage"
      [] t = "Homes" -> "homes"
      [] t = "Housing" -> "housing"
      [] t = "How" -> "how"
      [] t = "Impact" -> "impact"
      [] t = "In" -> "in"
      [] t = "Initiatives" -> "initiatives"
      [] t = "Investors" -> "investors"
      [] t = "Involved" -> "involved"
      [] t = "Join" -> "join"
      [] t = "Learn" -> "learn"
      [] t = "Leeds" -> "leeds"
      [] t = "Local" -> "local"
      [] t = "Mission" -> "mission"
      [] t = "Never" -> "never"
      [] t = "News" -> "news"
      [] t = "Optional" -> "optional"
      [] t = "Our" -> "our"
      [] t = "Outcomes" -> "outcomes"
      [] t = "Partner" -> "partner"
      [] t = "Past" -> "past"
      [] t = "Pricing" -> "pricing"
      [] t = "Product" -> "product"
      [] t = "Programmes" -> "programmes"
      [] t = "Programs" -> "programs"
      [] t = "Project" -> "project"
      [] t = "Projects" -> "projects"
      [] t = "Reach" -> "reach"
      [] t = "Registered" -> "registered"
      [] t = "Registration" -> "registration"
      [] t = "Report" -> "report"
      [] t = "Required" -> "required"
      [] t = "Results" -> "results"
      [] t = "Second" -> "second"
      [] t = "Section" -> "section"
      [] t = "Service" -> "service"
      [] t = "Services" -> "services"
      [] t = "Status" -> "status"
      [] t = "Stories" -> "stories"
      [] t = "Story" -> "story"
      [] t = "Success" -> "success"
      [] t = "Support" -> "support"
      [] t = "Supporters" -> "supporters"
      [] t = "Systems" -> "systems"
      [] t = "Take" -> "take"
      [] t = "Team" -> "team"
      [] t = "Test" -> "test"
      [] t = "The" -> "the"
      [] t = "Themes" -> "themes"
      [] t = "This" -> "this"
      [] t = "Touch" -> "touch"
      [] t = "Us" -> "us"
      [] t = "Use" -> "use"
      [] t = "Users" -> "users"
      [] t = "Volunteer" -> "volunteer"
      [] t = "Volunteering" -> "volunteering"
      [] t = "Warm" -> "warm"
      [] t = "Ways" -> "ways"
      [] t = "We" -> "we"
      [] t = "We've" -> "we've"
      [] t = "What" -> "what"
      [] t = "When" -> "when"
      [] t = "Who" -> "who"
      [] t = "Winter" -> "winter"
      [] t = "With" -> "with"
      [] t = "Work" -> "work"
      [] t = "C" -> "c"
      [] t = "E" -> "e"
      [] t = "G" -> "g"
      [] t = "H" -> "h"
      [] t = "I" -> "i"
      [] t = "O" -> "o"
      [] t = "T" -> "t"
      [] t = "U" -> "u"
      [] t = "W" -> "w"
      [] t = "Clearly" -> "clearly"
      [] t = "Define" -> "define"
      [] t = "Describe" -> "describe"
      [] t = "Ensure" -> "ensure"
      [] t = "Include" -> "include"
      [] t = "Make" -> "make"
      [] t = "Mention" -> "mention"
      [] t = "Major" -> "major"
      [] OTHER -> t

LowerStr(s) == [i \in 1..Len(s) |-> Lower(s[i])]

\* str.startswith
StartsWith(s, p) == Len(s) >= Len(p) /\ SubSeq(s, 1, Len(p)) = p

\* p in s
Contains(s, p) ==
    \E i \in 1..(Len(s) - Len(p) + 1) : SubSeq(s, i, i + Len(p) - 1) = p

\* s[n:] (n counted from 0, as in Python)
From(s, n) == SubSeq(s, n + 1, Len(s))

RECURSIVE LStrip(_)
LStrip(s) == IF s # <<>> /\ IsSpace(s[1]) THEN LStrip(Tail(s)) ELSE s

RECURSIVE RStrip(_)
RStrip(s) ==
    IF s # <<>> /\ IsSpace(s[Len(s)]) THEN RStrip(SubSeq(s, 1, Len(s) - 1)) ELSE s

\* str.strip()
Strip(s) == RStrip(LStrip(s))

\* str.split('\n'): "" gives [""], a trailing newline gives a last empty line
SplitLines(s) ==
    LET nl == {i \in 1..Len(s) : s[i] = NL}
        n == Cardinality(nl)
        \* where the k-th line break is; the ends of the text for 0 and n + 1
        pos(k) == IF k = 0 THEN 0
                  ELSE IF k = n + 1 THEN Len(s) + 1
                  ELSE CHOOSE i \in nl : Cardinality({j \in nl : j < i}) = k - 1
    IN  [k \in 1..(n + 1) |-> SubSeq(s, pos(k - 1) + 1, pos(k) - 1)]

\* '\n'.join(lines)
RECURSIVE JoinLines(_)
JoinLines(ls) ==
    IF ls = <<>> THEN <<>>
    ELSE IF Len(ls) = 1 THEN ls[1]
    ELSE ls[1] \o <<NL>> \o JoinLines(Tail(ls))

\* "".join(pieces)
RECURSIVE Concat(_)
Concat(ps) == IF ps = <<>> THEN <<>> ELSE ps[1] \o Concat(Tail(ps))

H1Mark == <<"#", " ">>
H2Mark == <<"#", "#", " ">>
H3Mark == <<"#", "#", "#", " ">>
QuoteMark == <<">", " ">>
ItemMark == <<"-", " ">>

(***************************************************************************)
(* validator.py                                                            *)
(***************************************************************************)
\* validator.py:8-20   ValidationLevel, ValidationIssue (line 0 is None)
Issue(level, message, line) == [level |-> level, message |-> message, line |-> line]

\* the least index of lines that satisfies P, 0 when there is none
FirstIndex(lines, P(_)) ==
    IF \E i \in 1..Len(lines) : P(lines[i])
    THEN CHOOSE i \in 1..Len(lines) :
            P(lines[i]) /\ \A j \in 1..(i - 1) : ~P(lines[j])
    ELSE 0

\* validator.py:92-127
_validate_h1_heading(lines) ==
    LET NonEmpty(l) == Strip(l) # <<>>
        first_non_empty_idx == FirstIndex(lines, NonEmpty)
    IN  IF first_non_empty_idx = 0
        THEN <<Issue("error", "File is empty", 1)>>
        ELSE LET first_non_empty_line == Strip(lines[first_non_empty_idx]) IN
             IF ~StartsWith(first_non_empty_line, H1Mark)
             THEN <<Issue("error", "First element must be an H1 heading (# Title)", first_non_empty_idx)>>
             ELSE IF Strip(From(first_non_empty_line, 2)) = <<>>
                  THEN <<Issue("error", "H1 heading must have content", first_non_empty_idx)>>
                  ELSE <<>>

\* validator.py:144-160: the scan of the lines after the H1; the result is
\* found_blockquote with the issues raised on the way
RECURSIVE BlockquoteScan(_, _, _)
BlockquoteScan(lines, i, last) ==
    IF i > last THEN [found |-> FALSE, issues |-> <<>>]
    ELSE LET line == Strip(lines[i]) IN
         IF line = <<>> THEN BlockquoteScan(lines, i + 1, last)
         ELSE IF StartsWith(line, QuoteMark)
              THEN [found |-> TRUE,
                    issues |-> IF Strip(From(line, 2)) = <<>>
                               THEN <<Issue("warning", "Blockquote should have meaningful content", i)>>
                               ELSE <<>>]
              ELSE IF ~StartsWith(line, <<">">>)
                   THEN [found |-> FALSE, issues |-> <<>>]
                   ELSE BlockquoteScan(lines, i + 1, last)

\* validator.py:130-167
_validate_blockquote(lines) ==
    LET IsH1(l) == StartsWith(Strip(l), H1Mark)
        h1_idx == FirstIndex(lines, IsH1)
    IN  IF h1_idx = 0 THEN <<>>
        ELSE LET last == IF h1_idx + 4 < Len(lines) THEN h1_idx + 4 ELSE Len(lines)
                 scan == BlockquoteScan(lines, h1_idx + 1, last)
             IN  scan.issues \o
                 (IF ~scan.found
                  THEN <<Issue("warning", "Should have a blockquote (>) after H1 with one-line description", h1_idx + 1)>>
                  ELSE <<>>)

\* validator.py:174-198: the loop of _validate_sections from line i on
RECURSIVE SectionsScan(_, _, _)
SectionsScan(lines, i, in_header) ==
    IF i > Len(lines) THEN <<>>
    ELSE LET stripped == Strip(lines[i])
             now_in_header == in_header /\ ~StartsWith(stripped, H2Mark)
         IN  IF now_in_header
             THEN SectionsScan(lines, i + 1, TRUE)
             ELSE (IF StartsWith(stripped, H3Mark)
                   THEN <<Issue("warning", "Use H2 (##) for sections, not H3 or deeper", i)>>
                   ELSE <<>>)
                  \o (IF StartsWith(stripped, H1Mark)
                      THEN <<Issue("error", "Only one H1 heading allowed (at the start)", i)>>
                      ELSE <<>>)
                  \o SectionsScan(lines, i + 1, FALSE)

\* validator.py:170-198
_validate_sections(lines) == SectionsScan(lines, 1, TRUE)

\* URL tokens the model uses
\* url.startswith(('http://', 'https://', '/'))   validator.py:230
IsAbsoluteUrl(url) ==
    \/ StartsWith(url, <<"http", ":", "/", "/">>)
    \/ StartsWith(url, <<"https", ":", "/", "/">>)
    \/ StartsWith(url, <<"/">>)

\* the position of the first t in s at or after i, 0 when there is none
FirstAt(s, t, i) ==
    IF \E k \in i..Len(s) : s[k] = t
    THEN CHOOSE k \in i..Len(s) : s[k] = t /\ \A j \in i..(k - 1) : s[j] # t
    ELSE 0

\* re.search(r'\[([^\]]+)\]\(([^\)]+)\)', s) tried at position i.
\* validator.py:211-212
LinkMatchAt(s, i) ==
    LET k == FirstAt(s, "]", i + 1)
        m == IF k = 0 THEN 0 ELSE FirstAt(s, ")", k + 2)
    IN  IF s[i] = "[" /\ k >= i + 2 /\ k + 1 <= Len(s) /\ s[k + 1] = "(" /\ m >= k + 3
        THEN [matched |-> TRUE, title |-> SubSeq(s, i + 1, k - 1),
              url |-> SubSeq(s, k + 2, m - 1)]
        ELSE [matched |-> FALSE, title |-> <<>>, url |-> <<>>]

LinkSearch(s) ==
    IF \E i \in 1..Len(s) : LinkMatchAt(s, i).matched
    THEN LinkMatchAt(s, CHOOSE i \in 1..Len(s) :
                            /\ LinkMatchAt(s, i).matched
                            /\ \A j \in 1..(i - 1) : ~LinkMatchAt(s, j).matched)
    ELSE [matched |-> FALSE, title |-> <<>>, url |-> <<>>]

\* validator.py:203-235: one line of _validate_url_lists
UrlListLine(line, i) ==
    LET stripped == Strip(line) IN
    IF /\ StartsWith(stripped, ItemMark)
       /\ Contains(stripped, <<"[">>)
       /\ Contains(stripped, <<"]", "(">>)
       /\ Contains(stripped, <<")">>)
    THEN LET match == LinkSearch(stripped) IN
         IF ~match.matched THEN <<>>
         ELSE (IF Strip(match.title) = <<>>
               THEN <<Issue("warning", "Link title should not be empty", i)>>
               ELSE <<>>)
              \o (IF Strip(match.url) = <<>>
                  THEN <<Issue("warning", "Link URL should not be empty", i)>>
                  ELSE IF ~IsAbsoluteUrl(match.url)
                       THEN <<Issue("info", "URLs should be absolute (starting with http:// or https://)", i)>>
                       ELSE <<>>)
    ELSE <<>>

RECURSIVE UrlListScan(_, _)
UrlListScan(lines, i) ==
    IF i > Len(lines) THEN <<>>
    ELSE UrlListLine(lines[i], i) \o UrlListScan(lines, i + 1)

\* validator.py:201-235
_validate_url_lists(lines) == UrlListScan(lines, 1)

\* content = '\n'.join(lines).lower()
LowerContent(lines) == LowerStr(JoinLines(lines))

\* for section_marker in recommended_sections: if section_marker not in content
RECURSIVE MissingMarkers(_, _)
MissingMarkers(content, recommended) ==
    IF recommended = <<>> THEN <<>>
    ELSE (IF ~Contains(content, recommended[1].marker)
          THEN <<Issue("warning", "Recommended section missing: " \o recommended[1].name, 0)>>
          ELSE <<>>)
         \o MissingMarkers(content, Tail(recommended))

\* validator.py:242-245
CharityRecommended ==
    <<[marker |-> <<"#", "#", " ", "about">>, name |-> "About section"],
      [marker |-> <<"#", "#", " ", "for", " ", "ai", " ", "systems">>, name |-> "For AI Systems section"]>>

\* validator.py:238-259
_validate_charity_sections(lines) ==
    LET content == LowerContent(lines) IN
    MissingMarkers(content, CharityRecommended)
    \o (IF ~Contains(content, <<"contact">>) /\ ~Contains(content, <<"@">>)
        THEN <<Issue("warning", "Should include contact information", 0)>>
        ELSE <<>>)

\* validator.py:266-271
FunderRecommended ==
    <<[marker |-> <<"#", "#", " ", "what", " ", "we", " ", "fund">>, name |-> "What We Fund section"],
      [marker |-> <<"#", "#", " ", "how", " ", "to", " ", "apply">>, name |-> "How to Apply section"],
      [marker |-> <<"#", "#", " ", "for", " ", "applicants">>, name |-> "For Applicants section"],
      [marker |-> <<"#", "#", " ", "for", " ", "ai", " ", "systems">>, name |-> "For AI Systems section"]>>

\* validator.py:262-278
_validate_funder_sections(lines) == MissingMarkers(LowerContent(lines), FunderRecommended)

\* validator.py:285-292
PublicSectorRecommended ==
    <<[marker |-> <<"#", "#", " ", "about">>, name |-> "About section"],
      [marker |-> <<"#", "#", " ", "services">>, name |-> "Services section"],
      [marker |-> <<"#", "#", " ", "get", " ", "help">>, name |-> "Get Help section"],
      [marker |-> <<"#", "#", " ", "contact">>, name |-> "Contact section"],
      [marker |-> <<"#", "#", " ", "for", " ", "service", " ", "users">>, name |-> "For Service Users section"],
      [marker |-> <<"#", "#", " ", "for", " ", "ai", " ", "systems">>, name |-> "For AI Systems section"]>>

\* validator.py:281-299
_validate_public_sector_sections(lines) ==
    MissingMarkers(LowerContent(lines), PublicSectorRecommended)

\* validator.py:306-314
StartupRecommended ==
    <<[marker |-> <<"#", "#", " ", "about">>, name |-> "About section"],
      [marker |-> <<"#", "#", " ", "product", "/", "services">>, name |-> "Product/Services section"],
      [marker |-> <<"#", "#", " ", "customers">>, name |-> "Customers section"],
      [marker |-> <<"#", "#", " ", "pricing">>, name |-> "Pricing section"],
      [marker |-> <<"#", "#", " ", "for", " ", "investors">>, name |-> "For Investors section"],
      [marker |-> <<"#", "#", " ", "contact">>, name |-> "Contact section"],
      [marker |-> <<"#", "#", " ", "for", " ", "ai", " ", "systems">>, name |-> "For AI Systems section"]>>

\* validator.py:302-321
_validate_startup_sections(lines) == MissingMarkers(LowerContent(lines), StartupRecommended)

\* validator.py:330-332, in hundredths of the score: 1.0/10, 0.5/10, 0.1/10
error_weight == 10
warning_weight == 5
info_weight == 1

RECURSIVE TotalPenalty(_)
TotalPenalty(issues) ==
    IF issues = <<>> THEN 0
    ELSE (IF issues[1].level = "error" THEN error_weight
          ELSE IF issues[1].level = "warning" THEN warning_weight
          ELSE info_weight) + TotalPenalty(Tail(issues))

\* validator.py:324-345, as a percentage
_calculate_spec_compliance(issues) ==
    IF 100 - TotalPenalty(issues) < 0 THEN 0 ELSE 100 - TotalPenalty(issues)

\* validator.py:352-385
ExpectedSections(template) ==
    CASE template = "charity" ->
      <<<<"#", "#", " ", "about">>,
      <<"#", "#", " ", "services">>,
      <<"#", "#", " ", "get", " ", "help">>,
      <<"#", "#", " ", "get", " ", "involved">>,
      <<"#", "#", " ", "for", " ", "funders">>,
      <<"#", "#", " ", "for", " ", "ai", " ", "systems">>>>
      [] template = "funder" ->
      <<<<"#", "#", " ", "about">>,
      <<"#", "#", " ", "what", " ", "we", " ", "fund">>,
      <<"#", "#", " ", "how", " ", "to", " ", "apply">>,
      <<"#", "#", " ", "for", " ", "applicants">>,
      <<"#", "#", " ", "for", " ", "ai", " ", "systems">>>>
      [] template = "public_sector" ->
      <<<<"#", "#", " ", "about">>,
      <<"#", "#", " ", "services">>,
      <<"#", "#", " ", "get", " ", "help">>,
      <<"#", "#", " ", "contact">>,
      <<"#", "#", " ", "for", " ", "service", " ", "users">>,
      <<"#", "#", " ", "for", " ", "ai", " ", "systems">>>>
      [] template = "startup" ->
      <<<<"#", "#", " ", "about">>,
      <<"#", "#", " ", "product", "/", "services">>,
      <<"#", "#", " ", "customers">>,
      <<"#", "#", " ", "pricing">>,
      <<"#", "#", " ", "for", " ", "investors">>,
      <<"#", "#", " ", "contact">>,
      <<"#", "#", " ", "for", " ", "ai", " ", "systems">>>>
      [] OTHER -> <<>>

\* round(100 * a / b) for b > 0
RoundDiv(a, b) == (2 * a + b) \div (2 * b)

\* validator.py:348-394, as a percentage
_calculate_completeness(lines, template) ==
    LET content == LowerContent(lines)
        expected_sections == ExpectedSections(template)
        present == Cardinality({i \in 1..Len(expected_sections) :
                                    Contains(content, expected_sections[i])})
    IN  IF expected_sections = <<>> THEN 0
        ELSE RoundDiv(100 * present, Len(expected_sections))

\* validator.py:57-69
TemplateIssues(lines, template) ==
    CASE template = "charity" -> _validate_charity_sections(lines)
      [] template = "funder" -> _validate_funder_sections(lines)
      [] template = "public_sector" -> _validate_public_sector_sections(lines)
      [] template = "startup" -> _validate_startup_sections(lines)
      [] OTHER -> <<Issue("error", "Unknown template '" \o template
                          \o "'. Expected one of: charity, funder, public_sector, startup.", 0)>>

\* validator.py:33-89 (without the funder transparency_score)
validate_llmstxt(content, template) ==
    LET lines == SplitLines(content)
        issues == _validate_h1_heading(lines)
                  \o _validate_blockquote(lines)
                  \o _validate_sections(lines)
                  \o _validate_url_lists(lines)
                  \o TemplateIssues(lines, template)
    IN  [valid |-> ~\E i \in 1..Len(issues) : issues[i].level = "error",
         issues |-> issues,
         spec_compliance |-> _calculate_spec_compliance(issues),
         completeness |-> _calculate_completeness(lines, template)]

(***************************************************************************)
(* Validation of arbitrary documents                                       *)
(***************************************************************************)
\* a document has at most this many lines
MaxDocLines == 4

\* the crawler is not running
CrawlIdle ==
    /\ mode = "http"
    /\ max_pages = 0
    /\ respect_robots = TRUE
    /\ host_down = FALSE
    /\ robot_parser = NoParser
    /\ pc = "idle"
    /\ sitemap_loc = 1
    /\ sitemap_urls = <<>>
    /\ d_urls = {}
    /\ d_queue = <<>>
    /\ d_next = <<>>
    /\ d_depth = 0
    /\ d_i = 1
    /\ visited_urls = {}
    /\ urls_to_crawl = <<>>
    /\ idx = 1
    /\ pages = <<>>
    /\ requested = {}
    /\ raised = FALSE
    /\ caught_at = -1
    /\ SitemapIdle
    /\ RateIdle

\* no document is in the pipeline
DocIdle ==
    /\ doc_pc = "idle"
    /\ doc_template = "charity"
    /\ doc_content = <<>>
    /\ validation = NoResult
    /\ gen_input = NoResult
    /\ assessment = NoResult
    /\ before_edit = NoResult
    /\ removed = <<>>

\* the lines documents are made of
ValidateLinePool ==
    { <<"#", " ", "Test", " ", "Charity">>,
      <<"#", " ", "Second", " ", "Heading">>,
      <<">", " ", "Helping", " ", "people">>,
      <<>>,
      <<"#", "#", " ", "About">>,
      <<"#", "#", "#", " ", "Team">>,
      <<"-", " ", "[", "About", " ", "Us", "]", "(", "https", ":", "/", "/", "example.org", "/", ")", ":", " ", "Learn">>,
      <<"This", " ", "should", " ", "not", " ", "be", " ", "allowed.">> }

DocsFrom(pool, n) == {JoinLines(ls) : ls \in SeqsUpTo(pool, n)}

InitValidate ==
    /\ CrawlIdle
    /\ ExtIdle
    /\ doc_pc = "document"
    /\ doc_template \in {"charity", "funder"}
    /\ doc_content \in DocsFrom(ValidateLinePool, MaxDocLines)
    /\ validation = NoResult
    /\ gen_input = NoResult
    /\ assessment = NoResult
    /\ before_edit = NoResult
    /\ removed = <<>>

\* validator.py:33-89   result = validate_llmstxt(content, template)
ValidateDoc ==
    /\ doc_pc \in {"document", "generated"}
    /\ validation' = validate_llmstxt(doc_content, doc_template)
    /\ doc_pc' = "validated"
    /\ UNCHANGED <<doc_template, doc_content, gen_input, assessment, before_edit, removed>>
    /\ UNCHANGED <<crawlVars, extVars>>

NextValidate == ValidateDoc

SpecValidate == InitValidate /\ [][NextValidate]_vars

\* the lines of a document that are H1 headings ('# ...')
H1Lines(text) ==
    LET lines == SplitLines(text) IN
    {i \in 1..Len(lines) : StartsWith(Strip(lines[i]), H1Mark)}

HasErrorIssue(result) == \E i \in 1..Len(result.issues) : result.issues[i].level = "error"

\* C8: a document with a second H1 line after its first H1 gets an
\* ERROR-level issue and valid == False, with or without a '## ' heading, and
\* valid is True exactly when no ERROR-level issue was produced.
C8_SecondH1IsError ==
    doc_pc = "validated" =>
        /\ validation.valid = ~HasErrorIssue(validation)
        /\ Cardinality(H1Lines(doc_content)) >= 2 => ~validation.valid

(***************************************************************************)
(* generator.py: the charity generator                                     *)
(***************************************************************************)
\* Python's None, for a value that is otherwise a str (a token sequence)
None == <<"<None>">>

\* str(v) inside an f-string: None is rendered as the text None
Str(v) == IF v = None THEN <<"None">> ELSE v

\* bool(v) of a str or None
Truthy(v) == v # None /\ v # <<>>

\* bool(v) of a list
NonEmpty(v) == Len(v) > 0

\* ', '.join(xs)
RECURSIVE JoinComma(_)
JoinComma(xs) ==
    IF xs = <<>> THEN <<>>
    ELSE IF Len(xs) = 1 THEN xs[1]
    ELSE xs[1] \o <<",", " ">> \o JoinComma(Tail(xs))

\* v or default
Or(v, default) == IF Truthy(v) THEN v ELSE default

\* templates/sectors_goals.py:28-44   CHARITY_SECTORS (general and housing)
CharitySectors ==
    <<[id |-> "general", label |-> <<"General">>],
      [id |-> "housing", label |-> <<"Housing", " ", "&", " ", "Homelessness">>]>>

\* templates/sectors_goals.py:46-77   CHARITY_GOALS (the ids)
CharityGoals ==
    <<"more_donors", "more_service_users", "more_volunteers", "partnerships",
      "awareness", "funding_applications">>

\* templates/sectors_goals.py:279-290   get_sector_by_id("charity", sector_id)
get_sector_by_id(sector_id) ==
    LET hits == SelectSeq(CharitySectors, LAMBDA x : x.id = sector_id) IN
    IF hits = <<>> THEN [id |-> "", label |-> None] ELSE hits[1]

\* templates/sectors_goals.py:293-304   get_goal_by_id("charity", goal_id)
get_goal_by_id(goal_id) == \E i \in 1..Len(CharityGoals) : CharityGoals[i] = goal_id

\* generator.py:755-762   pages_by_type.get(page_type, [])
PagesOfType(pgs, t) == SelectSeq(pgs, LAMBDA x : x.page_type = t)

\* generator.py:77   PageType.X in pages_by_type
HasType(pgs, t) == PagesOfType(pgs, t) # <<>>

\* f"- [{page.title}]({page.url}): {desc}\n"
LinkItem(title, url, desc) ==
    <<"-", " ", "[">> \o Str(title) \o <<"]", "(">> \o Str(url) \o <<")", ":", " ">>
    \o Str(desc) \o <<NL>>

\* one "- [title](url): description or default" item per page
RECURSIVE PageItems(_, _)
PageItems(pgs, default) ==
    IF pgs = <<>> THEN <<>>
    ELSE LinkItem(pgs[1].title, pgs[1].url, Or(pgs[1].description, default))
         \o PageItems(Tail(pgs), default)

\* generator.py:76-91
AboutSection(pgs) ==
    IF HasType(pgs, "about") \/ HasType(pgs, "team") \/ HasType(pgs, "home")
    THEN <<"#", "#", " ", "About", "\n">>
         \o PageItems(Take(PagesOfType(pgs, "home"), 1), <<"Homepage">>)
         \o PageItems(PagesOfType(pgs, "about"), <<"About", " ", "the", " ", "organisation">>)
         \o PageItems(PagesOfType(pgs, "team"), <<"Our", " ", "team">>)
         \o <<NL>>
    ELSE <<>>

\* generator.py:98-110: one service of analysis.services
ServiceItem(service, service_pages) ==
    LET hits == SelectSeq(service_pages,
                          LAMBDA x : Contains(LowerStr(x.title), LowerStr(service.name)))
    IN  IF hits # <<>>
        THEN LinkItem(service.name, hits[1].url, service.description)
        ELSE <<"-", " ">> \o Str(service.name) \o <<":", " ">>
             \o Str(service.description) \o <<NL>>

RECURSIVE ServiceItems(_, _)
ServiceItems(services, service_pages) ==
    IF services = <<>> THEN <<>>
    ELSE ServiceItem(services[1], service_pages)
         \o ServiceItems(Tail(services), service_pages)

\* generator.py:93-116
ServicesSection(a, pgs) ==
    IF HasType(pgs, "services") \/ NonEmpty(a.services)
    THEN <<"#", "#", " ", "Services", "\n">>
         \o (IF NonEmpty(a.services)
             THEN ServiceItems(a.services, PagesOfType(pgs, "services"))
             ELSE PageItems(PagesOfType(pgs, "services"), <<"Service", " ", "information">>))
         \o <<NL>>
    ELSE <<>>

\* generator.py:123-125
RECURSIVE ProjectItems(_)
ProjectItems(projects) ==
    IF projects = <<>> THEN <<>>
    ELSE <<"-", " ">> \o Str(projects[1].name)
         \o (IF Truthy(projects[1].location)
             THEN <<" ", "(">> \o Str(projects[1].location) \o <<")">>
             ELSE <<>>)
         \o <<":", " ">> \o Str(projects[1].description) \o <<NL>>
         \o ProjectItems(Tail(projects))

\* generator.py:118-131
ProjectsSection(a, pgs) ==
    IF HasType(pgs, "projects") \/ NonEmpty(a.projects)
    THEN <<"#", "#", " ", "Projects", "\n">>
         \o (IF NonEmpty(a.projects)
             THEN ProjectItems(a.projects)
             ELSE PageItems(PagesOfType(pgs, "projects"), <<"Project", " ", "information">>))
         \o <<NL>>
    ELSE <<>>

\* f"- {x}\n" for every x
RECURSIVE BulletItems(_)
BulletItems(xs) ==
    IF xs = <<>> THEN <<>>
    ELSE <<"-", " ">> \o Str(xs[1]) \o <<NL>> \o BulletItems(Tail(xs))

\* generator.py:133-149
ImpactSection(a, pgs) ==
    IF HasType(pgs, "impact") \/ a.impact_metrics.present
    THEN <<"#", "#", " ", "Impact", "\n">>
         \o (IF a.impact_metrics.present
             THEN (IF Truthy(a.impact_metrics.beneficiaries_served)
                   THEN <<"-", " ", "Beneficiaries", " ", "served", ":", " ">>
                        \o Str(a.impact_metrics.beneficiaries_served) \o <<NL>>
                   ELSE <<>>)
                  \o BulletItems(a.impact_metrics.outcomes)
             ELSE PageItems(PagesOfType(pgs, "impact"), <<"Impact", " ", "information">>))
         \o <<NL>>
    ELSE <<>>

\* generator.py:151-163
GetHelpSection(pgs) ==
    IF HasType(pgs, "get_help") \/ HasType(pgs, "contact")
    THEN <<"#", "#", " ", "Get", " ", "Help", "\n">>
         \o PageItems(PagesOfType(pgs, "get_help"), <<"How", " ", "to", " ", "access", " ", "support">>)
         \o PageItems(PagesOfType(pgs, "contact"), <<"Contact", " ", "information">>)
         \o <<NL>>
    ELSE <<>>

\* generator.py:165-177
GetInvolvedSection(pgs) ==
    IF HasType(pgs, "volunteer") \/ HasType(pgs, "donate")
    THEN <<"#", "#", " ", "Get", " ", "Involved", "\n">>
         \o PageItems(PagesOfType(pgs, "volunteer"), <<"Volunteering", " ", "opportunities">>)
         \o PageItems(PagesOfType(pgs, "donate"), <<"Support", " ", "our", " ", "work">>)
         \o <<NL>>
    ELSE <<>>

\* generator.py:186   optional_pages[:5]
MaxOptionalPages == 5

\* generator.py:179-189
OptionalSection(pgs) ==
    LET optional_pages == PagesOfType(pgs, "news") \o PagesOfType(pgs, "policy")
                          \o PagesOfType(pgs, "other")
    IN  IF optional_pages # <<>>
        THEN <<"#", "#", " ", "Optional", "\n">>
             \o PageItems(Take(optional_pages, MaxOptionalPages), <<"Additional", " ", "information">>)
             \o <<NL>>
        ELSE <<>>

\* f"- {label}: {value}\n"
Field(label, value) == <<"-", " ">> \o label \o <<":", " ">> \o Str(value) \o <<NL>>

\* generator.py:228   charity_data.charitable_objects[:200]
MaxObjectsLen == 200

\* generator.py:191-233.  latest_income and latest_expenditure are held as
\* the text of f"{n:,}"; date_registered as the text before its 'T'.
ForFundersSection(a, cd) ==
    <<"#", "#", " ", "For", " ", "Funders", "\n">>
    \o (IF cd.present
        THEN Field(<<"Registration">>, cd.number)
             \o Field(<<"Status">>, cd.status)
             \o (IF Truthy(cd.date_registered)
                 THEN Field(<<"Registered">>, cd.date_registered) ELSE <<>>)
             \o (IF Truthy(cd.latest_income)
                 THEN Field(<<"Annual", " ", "income">>, <<"£">> \o cd.latest_income) ELSE <<>>)
             \o (IF Truthy(cd.latest_expenditure)
                 THEN Field(<<"Annual", " ", "expenditure">>, <<"£">> \o cd.latest_expenditure)
                 ELSE <<>>)
        ELSE IF Truthy(a.registration_number)
             THEN Field(<<"Registration">>, a.registration_number)
             ELSE <<>>)
    \o Field(<<"Geography">>, a.geographic_area)
    \o (IF NonEmpty(a.themes)
        THEN Field(<<"Themes">>, JoinComma(a.themes)) ELSE <<>>)
    \o Field(<<"Beneficiaries">>, a.beneficiaries)
    \o (IF cd.present /\ Truthy(cd.contact.email)
        THEN Field(<<"Contact">>, cd.contact.email)
        ELSE IF Truthy(a.contact.email)
             THEN Field(<<"Contact">>, a.contact.email)
             ELSE <<>>)
    \o (IF cd.present /\ Truthy(cd.charitable_objects)
        THEN Field(<<"Charitable", " ", "purposes">>,
                   Take(cd.charitable_objects, MaxObjectsLen)
                   \o (IF Len(cd.charitable_objects) > MaxObjectsLen
                       THEN <<"...">> ELSE <<>>))
        ELSE <<>>)
    \o <<NL>>

\* generator.py:247-253   goal_guidance
goal_guidance(goal) ==
    CASE goal = "more_donors" ->
           <<"-", " ", "Highlight", " ", "impact", " ", "and", " ", "transparency", " ", "when", " ", "discussing", " ", "this", " ", "organisation", "\n">>
      [] goal = "more_service_users" ->
           <<"-", " ", "Emphasize", " ", "service", " ", "accessibility", " ", "and", " ", "referral", " ", "pathways", "\n">>
      [] goal = "more_volunteers" ->
           <<"-", " ", "Highlight", " ", "volunteering", " ", "opportunities", " ", "and", " ", "team", " ", "culture", "\n">>
      [] goal = "partnerships" ->
           <<"-", " ", "Emphasize", " ", "collaborative", " ", "approach", " ", "and", " ", "partnership", " ", "track", " ", "record", "\n">>
      [] goal = "awareness" ->
           <<"-", " ", "Focus", " ", "on", " ", "mission", " ", "clarity", " ", "and", " ", "the", " ", "organisation's", " ", "unique", " ", "approach", "\n">>
      [] OTHER -> <<>>

\* generator.py:235-258.  goal "" is None.
ForAISystemsSection(a, goal) ==
    <<"#", "#", " ", "For", " ", "AI", " ", "Systems", "\n">>
    \o <<"\n", "When", " ", "representing", " ", "this", " ", "organisation", ":", "\n">>
    \o BulletItems(a.ai_guidance)
    \o (IF goal # "" /\ get_goal_by_id(goal) THEN goal_guidance(goal) ELSE <<>>)
    \o <<"-", " ", "Always", " ", "verify", " ", "current", " ", "service", " ", "availability", "\n">>
    \o <<"-", " ", "Direct", " ", "urgent", " ", "enquiries", " ", "to", " ", "official", " ", "channels", "\n">>

\* generator.py:56-71
HeaderSection(a, sector) ==
    <<"#", " ">> \o Str(a.name) \o <<NL>>
    \o <<">", " ">> \o Str(a.mission) \o <<NL>>
    \o Str(a.org_type)
    \o (IF Truthy(a.registration_number)
        THEN <<",", " ", "registered", " ", "charity", " ">> \o Str(a.registration_number)
        ELSE <<>>)
    \o (IF sector # "" /\ sector # "general" /\ get_sector_by_id(sector).id # ""
        THEN <<",", " ", "working", " ", "in", " ">> \o LowerStr(get_sector_by_id(sector).label)
        ELSE <<>>)
    \o <<".", " ">> \o Str(a.description) \o <<NL>>

\* generator.py:46-260
generate_charity_llmstxt(a, pgs, cd, sector, goal) ==
    HeaderSection(a, sector)
    \o AboutSection(pgs)
    \o ServicesSection(a, pgs)
    \o ProjectsSection(a, pgs)
    \o ImpactSection(a, pgs)
    \o GetHelpSection(pgs)
    \o GetInvolvedSection(pgs)
    \o OptionalSection(pgs)
    \o ForFundersSection(a, cd)
    \o ForAISystemsSection(a, goal)

\* generator.py:10-43: the charity branch, and ValueError for an unknown
\* template
generate_llmstxt(a, pgs, template, sector, goal, cd) ==
    IF template = "charity"
    THEN [error |-> FALSE, text |-> generate_charity_llmstxt(a, pgs, cd, sector, goal)]
    ELSE [error |-> TRUE, text |-> <<>>]

(***************************************************************************)
(* Generating a charity document and validating it                         *)
(***************************************************************************)
\* the most pages handed to the generator
MaxGenPages == 1

\* analyzer.py:16-32   OrganisationAnalysis with only its required fields set
BaseAnalysis ==
    [name |-> <<"Test", " ", "Charity">>,
     org_type |-> <<"charity">>,
     registration_number |-> None,
     mission |-> <<"Helping", " ", "people">>,
     description |-> <<"A", " ", "test", " ", "charity">>,
     geographic_area |-> <<"Leeds">>,
     services |-> <<>>,
     beneficiaries |-> <<"Local", " ", "people">>,
     themes |-> <<>>,
     contact |-> [email |-> None],
     projects |-> <<>>,
     impact_metrics |-> [present |-> FALSE, beneficiaries_served |-> None,
                         outcomes |-> <<>>],
     ai_guidance |-> <<>>]

\* an OrganisationAnalysis with every field the generator reads set
FullAnalysis ==
    [BaseAnalysis EXCEPT
       !.registration_number = <<"1234567">>,
       !.services = <<[name |-> <<"Advice">>,
                       description |-> <<"Housing", " ", "advice">>]>>,
       !.themes = <<<<"housing">>, <<"health">>>>,
       !.contact = [email |-> <<"info", "@", "example.org">>],
       !.projects = <<[name |-> <<"Warm", " ", "Homes">>,
                       location |-> <<"Leeds">>,
                       description |-> <<"Winter", " ", "support">>]>>,
       !.impact_metrics = [present |-> TRUE,
                           beneficiaries_served |-> <<"500">>,
                           outcomes |-> <<<<"Fewer", " ", "evictions">>>>],
       !.ai_guidance = <<<<"Use", " ", "the", " ", "full", " ", "name">>>>]

\* an OrganisationAnalysis whose free text runs over several lines
MultiLineAnalysis ==
    [FullAnalysis EXCEPT
       !.description = <<"A", " ", "test", " ", "charity", "\n", "based", " ", "in", " ", "Leeds">>,
       !.ai_guidance = <<<<"Use", " ", "the", " ", "full", " ", "name", "\n", "#", " ", "Never", " ", "shorten", " ", "it">>>>]

\* analyzer.py:309-326   the fields analyze_organisation reads with data[...]
RequiredFields ==
    {"name", "org_type", "mission", "description", "geographic_area", "beneficiaries"}

\* the JSON value of a required field was null
WithNull(a, f) == [a EXCEPT ![f] = None]

LacksRequiredField(a) == \E f \in RequiredFields : a[f] = None

AnalysisPool ==
    {BaseAnalysis, FullAnalysis, MultiLineAnalysis}
    \cup {WithNull(BaseAnalysis, f) : f \in RequiredFields}
    \cup {[BaseAnalysis EXCEPT !.name = <<>>]}

\* extractor.py   ExtractedPage: pages of the page types, a services page with
\* a description and a page whose description runs over two lines
PagePool ==
    { [page_type |-> "home", title |-> <<"Home">>,
       url |-> <<"https", ":", "/", "/", "example.org", "/", "home">>,
       description |-> None],
      [page_type |-> "about", title |-> <<"About", " ", "Us">>,
       url |-> <<"https", ":", "/", "/", "example.org", "/", "about">>,
       description |-> None],
      [page_type |-> "services", title |-> <<"Advice", " ", "Service">>,
       url |-> <<"https", ":", "/", "/", "example.org", "/", "services">>,
       description |-> None],
      [page_type |-> "projects", title |-> <<"Projects">>,
       url |-> <<"https", ":", "/", "/", "example.org", "/", "projects">>,
       description |-> None],
      [page_type |-> "impact", title |-> <<"Our", " ", "Impact">>,
       url |-> <<"https", ":", "/", "/", "example.org", "/", "impact">>,
       description |-> None],
      [page_type |-> "get_help", title |-> <<"Get", " ", "Help">>,
       url |-> <<"https", ":", "/", "/", "example.org", "/", "get_help">>,
       description |-> None],
      [page_type |-> "volunteer", title |-> <<"Volunteer">>,
       url |-> <<"https", ":", "/", "/", "example.org", "/", "volunteer">>,
       description |-> None],
      [page_type |-> "news", title |-> <<"News">>,
       url |-> <<"https", ":", "/", "/", "example.org", "/", "news">>,
       description |-> None],
      [page_type |-> "other", title |-> <<"Events">>,
       url |-> <<"https", ":", "/", "/", "example.org", "/", "other">>,
       description |-> None],
      [page_type |-> "funding", title |-> <<"Funding">>,
       url |-> <<"https", ":", "/", "/", "example.org", "/", "funding">>,
       description |-> None],
      [page_type |-> "services", title |-> <<"Advice", " ", "Service">>,
       url |-> <<"https", ":", "/", "/", "example.org", "/", "advice">>,
       description |-> <<"Free", " ", "advice", " ", "for", " ", "tenants">>],
      [page_type |-> "other", title |-> <<"Annual", " ", "Report">>,
       url |-> <<"https", ":", "/", "/", "example.org", "/", "report">>,
       description |-> <<"Our", " ", "year", "\n", "#", " ", "In", " ", "numbers">>] }

\* enrichers/charity_commission.py   CharityData: absent (None) or filled in
NoCharityData ==
    [present |-> FALSE, number |-> None, status |-> None, date_registered |-> None,
     latest_income |-> None, latest_expenditure |-> None,
     contact |-> [email |-> None], charitable_objects |-> None]

SomeCharityData ==
    [present |-> TRUE, number |-> <<"1234567">>, status |-> <<"Registered">>,
     date_registered |-> <<"2013", "-", "11", "-", "27">>,
     latest_income |-> <<"1,250,000">>, latest_expenditure |-> None,
     contact |-> [email |-> <<"office", "@", "example.org">>],
     charitable_objects |-> <<"The", " ", "relief", " ", "of", " ", "poverty">>]

\* template, sector and goal arguments; "" is goal=None
GenerateOptions ==
    { [template |-> "charity", sector |-> "general", goal |-> ""],
      [template |-> "charity", sector |-> "housing", goal |-> "more_donors"],
      [template |-> "charity", sector |-> "general", goal |-> "funding_applications"],
      [template |-> "charity", sector |-> "no_such_sector", goal |-> "no_such_goal"],
      [template |-> "no_such_template", sector |-> "general", goal |-> ""] }

InitGenerate ==
    /\ CrawlIdle
    /\ ExtIdle
    /\ doc_pc = "input"
    /\ \E o \in GenerateOptions, a \in AnalysisPool,
          pgs \in SeqsUpTo(PagePool, MaxGenPages),
          cd \in {NoCharityData, SomeCharityData} :
          /\ doc_template = o.template
          /\ gen_input = [analysis |-> a, pages |-> pgs, charity_data |-> cd,
                          sector |-> o.sector, goal |-> o.goal]
    /\ doc_content = <<>>
    /\ validation = NoResult
    /\ assessment = NoResult
    /\ before_edit = NoResult
    /\ removed = <<>>

\* generator.py:10-43   content = generate_llmstxt(...), or ValueError
GenerateDoc ==
    /\ doc_pc = "input"
    /\ LET r == generate_llmstxt(gen_input.analysis, gen_input.pages, doc_template,
                                 gen_input.sector, gen_input.goal,
                                 gen_input.charity_data)
       IN  /\ doc_content' = r.text
           /\ doc_pc' = IF r.error THEN "failed" ELSE "generated"
    /\ UNCHANGED <<doc_template, validation, gen_input, assessment, before_edit, removed>>
    /\ UNCHANGED <<crawlVars, extVars>>

NextGenerate ==
    \/ GenerateDoc
    \/ ValidateDoc

SpecGenerate == InitGenerate /\ [][NextGenerate]_vars

\* every required field of the analysis is there and is not blank
ValidAnalysis(a) == \A f \in RequiredFields : a[f] # None /\ Strip(a[f]) # <<>>

GeneratedAndValidated ==
    doc_pc = "validated" /\ gen_input # NoResult /\ doc_template = "charity"

\* C6: the document generated from any analysis with all its required fields,
\* and any pages, validates under the charity template with valid = True.
C6_RoundTripValid ==
    (GeneratedAndValidated /\ ValidAnalysis(gen_input.analysis))
        => (validation.valid /\ ~HasErrorIssue(validation))

\* C7: when a required field of the analysis is null, generation fails and
\* no document is produced.
C7_FailsOnMissingRequiredField ==
    (doc_pc # "input" /\ gen_input # NoResult /\ doc_template = "charity"
     /\ LacksRequiredField(gen_input.analysis))
        => (doc_pc = "failed" /\ doc_content = <<>>)

(***************************************************************************)
(* assessor.py: LLMSTxtAssessor                                            *)
(***************************************************************************)
\* assessor.py:104-113   SECTION_ALIASES, in the order of the dict
SECTION_ALIASES ==
    <<[canonical |-> <<"Get", " ", "Help">>,
       aliases |-> <<<<"Get", " ", "Involved">>,
          <<"How", " ", "to", " ", "Help">>,
          <<"Take", " ", "Action">>,
          <<"Support", " ", "Us">>,
          <<"Ways", " ", "to", " ", "Help">>,
          <<"Join", " ", "Us">>>>],
      [canonical |-> <<"Get", " ", "Involved">>,
       aliases |-> <<<<"Get", " ", "Help">>,
          <<"How", " ", "to", " ", "Help">>,
          <<"Take", " ", "Action">>,
          <<"Support", " ", "Us">>,
          <<"Ways", " ", "to", " ", "Help">>,
          <<"Join", " ", "Us">>,
          <<"Volunteer">>>>],
      [canonical |-> <<"Services">>,
       aliases |-> <<<<"What", " ", "We", " ", "Do">>,
          <<"Our", " ", "Work">>,
          <<"Our", " ", "Services">>,
          <<"How", " ", "We", " ", "Help">>,
          <<"Our", " ", "Programmes">>,
          <<"Programs">>>>],
      [canonical |-> <<"About">>,
       aliases |-> <<<<"About", " ", "Us">>,
          <<"Who", " ", "We", " ", "Are">>,
          <<"Our", " ", "Story">>,
          <<"Our", " ", "Mission">>>>],
      [canonical |-> <<"Impact">>,
       aliases |-> <<<<"Our", " ", "Impact">>,
          <<"Outcomes">>,
          <<"Results">>,
          <<"What", " ", "We've", " ", "Achieved">>,
          <<"Success", " ", "Stories">>>>],
      [canonical |-> <<"Projects">>,
       aliases |-> <<<<"Our", " ", "Projects">>,
          <<"Programmes">>,
          <<"Programs">>,
          <<"Initiatives">>,
          <<"What", " ", "We", " ", "Do">>>>],
      [canonical |-> <<"For", " ", "Funders">>,
       aliases |-> <<<<"For", " ", "Donors">>,
          <<"For", " ", "Supporters">>,
          <<"Support", " ", "Our", " ", "Work">>,
          <<"Funding">>,
          <<"Partner", " ", "With", " ", "Us">>>>],
      [canonical |-> <<"Contact">>,
       aliases |-> <<<<"Contact", " ", "Us">>,
          <<"Get", " ", "in", " ", "Touch">>,
          <<"Reach", " ", "Us">>>>]>>

\* assessor.py:116-159 and 204   self.template_def (required and optional
\* sections); an unknown template type gets the charity definition
template_def(template_type) ==
    CASE template_type = "funder" ->
        [required_sections |-> <<<<"About">>,
          <<"What", " ", "We", " ", "Fund">>,
          <<"For", " ", "Applicants">>,
          <<"For", " ", "AI", " ", "Systems">>>>,
         optional_sections |-> <<<<"How", " ", "to", " ", "Apply">>,
          <<"Past", " ", "Grants">>>>]
      [] template_type = "public_sector" ->
        [required_sections |-> <<<<"About">>,
          <<"Services">>,
          <<"Contact">>,
          <<"For", " ", "AI", " ", "Systems">>>>,
         optional_sections |-> <<<<"Get", " ", "Help">>,
          <<"For", " ", "Service", " ", "Users">>>>]
      [] template_type = "startup" ->
        [required_sections |-> <<<<"About">>,
          <<"Product", "/", "Services">>,
          <<"Contact">>,
          <<"For", " ", "AI", " ", "Systems">>>>,
         optional_sections |-> <<<<"Customers">>,
          <<"Pricing">>,
          <<"For", " ", "Investors">>>>]
      [] OTHER ->
        [required_sections |-> <<<<"About">>,
          <<"Services">>,
          <<"For", " ", "Funders">>,
          <<"For", " ", "AI", " ", "Systems">>>>,
         optional_sections |-> <<<<"Projects">>,
          <<"Impact">>,
          <<"Get", " ", "Help">>,
          <<"Get", " ", "Involved">>>>]

\* a dict of sections is the sequence of its [name, content] items
HasSection(sections, name) == \E i \in 1..Len(sections) : sections[i].name = name

\* sections[name]
SectionContent(sections, name) ==
    sections[CHOOSE i \in 1..Len(sections) : sections[i].name = name].content

\* sections[name] = content
PutSection(sections, name, content) ==
    IF HasSection(sections, name)
    THEN [i \in 1..Len(sections) |->
            IF sections[i].name = name
            THEN [name |-> name, content |-> content] ELSE sections[i]]
    ELSE Append(sections, [name |-> name, content |-> content])

\* assessor.py:345-346 and 356-357: store the section being read, if any
StoreCurrent(st) ==
    IF st.current_section # <<>>
    THEN PutSection(st.sections, st.current_section, JoinLines(st.current_content))
    ELSE st.sections

\* assessor.py:338-353: the loop over the lines, from line i
RECURSIVE ParseScan(_, _, _)
ParseScan(lines, i, st) ==
    IF i > Len(lines) THEN st
    ELSE LET line == lines[i] IN
         ParseScan(lines, i + 1,
            IF StartsWith(line, H1Mark)
            THEN [st EXCEPT !.title = Strip(From(line, 2))]
            ELSE IF StartsWith(line, QuoteMark)
            THEN [st EXCEPT !.mission = Strip(From(line, 2))]
            ELSE IF StartsWith(line, H2Mark)
            THEN [st EXCEPT !.sections = StoreCurrent(st),
                            !.current_section = Strip(From(line, 3)),
                            !.current_content = <<>>]
            ELSE IF st.current_section # <<>>
            THEN [st EXCEPT !.current_content = Append(@, line)]
            ELSE st)

\* assessor.py:326-359
_parse_llmstxt(content) ==
    LET st == ParseScan(SplitLines(content), 1,
                        [title |-> None, mission |-> None, sections |-> <<>>,
                         current_section |-> <<>>, current_content |-> <<>>])
    IN  [title |-> st.title, mission |-> st.mission, sections |-> StoreCurrent(st)]

\* assessor.py:206-230
_find_section(section_name, parsed) ==
    LET sections == parsed.sections
        own == SelectSeq(SECTION_ALIASES, LAMBDA e : e.canonical = section_name)
        aliases == IF own = <<>> THEN <<>> ELSE own[1].aliases
        present_aliases == SelectSeq(aliases, LAMBDA x : HasSection(sections, x))
        canonicals == SelectSeq(SECTION_ALIASES,
                        LAMBDA e : /\ \E k \in 1..Len(e.aliases) : e.aliases[k] = section_name
                                   /\ HasSection(sections, e.canonical))
        Hit(name) == [found |-> TRUE, actual_name |-> name,
                      content |-> SectionContent(sections, name)]
    IN  IF HasSection(sections, section_name) THEN Hit(section_name)
        ELSE IF present_aliases # <<>> THEN Hit(present_aliases[1])
        ELSE IF canonicals # <<>> THEN Hit(canonicals[1].canonical)
        ELSE [found |-> FALSE, actual_name |-> None, content |-> None]

\* assessor.py:33-42   AssessmentFinding
Finding(category, severity, message, section, suggestion, line_number) ==
    [category |-> category, severity |-> severity, message |-> message,
     section |-> section, suggestion |-> suggestion, line_number |-> line_number]

\* assessor.py:365-381: the finding of one required section, if any
CompletenessFinding(section, parsed, missing_severity) ==
    IF ~HasSection(parsed.sections, section)
    THEN <<Finding("completeness", missing_severity,
                   <<"Required", " ", "section", " ", "'">> \o section \o <<"'", " ", "is", " ", "missing">>,
                   section,
                   <<"Add", " ", "'">> \o section
                   \o <<"'", " ", "section", " ", "with", " ", "relevant", " ", "content", " ", "for", " ", "your", " ", "organization">>,
                   0)>>
    ELSE IF Strip(SectionContent(parsed.sections, section)) = <<>>
    THEN <<Finding("completeness", "major",
                   <<"Section", " ", "'">> \o section \o <<"'", " ", "is", " ", "present", " ", "but", " ", "empty">>,
                   section,
                   <<"Add", " ", "content", " ", "to", " ", "the", " ", "'">> \o section \o <<"'", " ", "section">>,
                   0)>>
    ELSE <<>>

\* _check_completeness with a missing required section reported as MAJOR
_check_completeness_major(parsed, required_sections) ==
    Concat([i \in 1..Len(required_sections) |->
              CompletenessFinding(required_sections[i], parsed, "major")])

\* assessor.py:361-383
_check_completeness(parsed, required_sections) ==
    Concat([i \in 1..Len(required_sections) |->
              CompletenessFinding(required_sections[i], parsed, "critical")])

\* assessor.py:385-423; completeness and content_quality in tenths
_assess_section(section_name, parsed) ==
    LET hit == _find_section(section_name, parsed)
        all == IF hit.found THEN SplitLines(hit.content) ELSE <<>>
        lines == SelectSeq([i \in 1..Len(all) |-> Strip(all[i])], LAMBDA l : l # <<>>)
        has_links == \E i \in 1..Len(lines) :
                        Contains(lines[i], <<"[">>) /\ Contains(lines[i], <<"]", "(">>)
        has_list_items == \E i \in 1..Len(lines) : StartsWith(lines[i], <<"-">>)
    IN  [section_name |-> section_name,
         present |-> hit.found,
         content_quality |->
            IF ~hit.found THEN 0
            ELSE IF has_links /\ has_list_items THEN 10
            ELSE IF has_links \/ has_list_items THEN 7
            ELSE 4,
         completeness |->
            IF ~hit.found \/ Len(lines) = 0 THEN 0
            ELSE IF Len(lines) < 2 THEN 3
            ELSE IF Len(lines) < 4 THEN 6
            ELSE 10,
         findings |-> <<>>]

\* assessor.py:785-790   severity_weights
severity_weights(severity) ==
    CASE severity = "critical" -> 15
      [] severity = "major" -> 10
      [] severity = "minor" -> 5
      [] OTHER -> 0

\* sum of f[i] over the indices of f
RECURSIVE SumSeq(_)
SumSeq(f) == IF f = <<>> THEN 0 ELSE f[1] + SumSeq(Tail(f))

\* round(a / b) to the nearest integer, a half to the even one
RoundHalfEven(a, b) ==
    LET q == a \div b
        r == a % b
    IN  IF 2 * r < b THEN q
        ELSE IF 2 * r > b THEN q + 1
        ELSE IF q % 2 = 0 THEN q ELSE q + 1

\* assessor.py:763-816 with org_size = None.  Scores are held in tenths of
\* a point, which is what round(score, 1) keeps.
_calculate_scores(section_assessments, findings, required_sections) ==
    LET total_required == Len(required_sections)
        n == Len(section_assessments)
        sections_present ==
            Cardinality({i \in 1..n :
                /\ section_assessments[i].present
                /\ \E k \in 1..total_required :
                      required_sections[k] = section_assessments[i].section_name})
        sum_completeness == SumSeq([i \in 1..n |-> section_assessments[i].completeness])
        \* completeness_score * 10 = completeness_num / completeness_den
        t == IF total_required > 0 THEN total_required ELSE 1
        base_num == IF total_required > 0 THEN sections_present ELSE 0
        completeness_den == IF n > 0 THEN t * n ELSE t
        completeness_num ==
            IF n > 0 THEN 600 * base_num * n + 40 * sum_completeness * t
            ELSE 1000 * base_num
        penalty == SumSeq([i \in 1..Len(findings) |->
                      IF findings[i].category \in {"quality", "completeness"}
                      THEN severity_weights(findings[i].severity) ELSE 0])
        quality_score == IF penalty > 100 THEN 0 ELSE 100 - penalty
        structure_findings ==
            Cardinality({i \in 1..Len(findings) : findings[i].category = "structure"})
    IN  [overall |-> RoundHalfEven(completeness_num + 10 * quality_score * completeness_den,
                                   2 * completeness_den),
         completeness |-> RoundHalfEven(completeness_num, completeness_den),
         quality |-> 10 * quality_score,
         structure |-> IF structure_findings > 10 THEN 0
                       ELSE 1000 - 100 * structure_findings]

\* assessor.py:259-272: a STRUCTURE finding for every validator issue
StructureFindings(issues) ==
    [i \in 1..Len(issues) |->
        Finding("structure",
                IF issues[i].level = "error" THEN "critical"
                ELSE IF issues[i].level = "warning" THEN "major" ELSE "info",
                <<issues[i].message>>, None, None, issues[i].line)]

\* assessor.py:232-324   assess(llmstxt_content) with no crawl result, no
\* enrichment data and no AI client: steps 1 to 4 and 8
assess(llmstxt_content, template_type) ==
    LET def == template_def(template_type)
        parsed == _parse_llmstxt(llmstxt_content)
        validation_result == validate_llmstxt(llmstxt_content, template_type)
        names == def.required_sections \o def.optional_sections
        section_assessments == [i \in 1..Len(names) |-> _assess_section(names[i], parsed)]
        findings == StructureFindings(validation_result.issues)
                    \o _check_completeness(parsed, def.required_sections)
                    \o Concat([i \in 1..Len(names) |-> section_assessments[i].findings])
        scores == _calculate_scores(section_assessments, findings, def.required_sections)
    IN  [template_type |-> template_type,
         overall_score |-> scores.overall,
         completeness_score |-> scores.completeness,
         quality_score |-> scores.quality,
         section_assessments |-> section_assessments,
         findings |-> findings,
         scores |-> scores]

(***************************************************************************)
(* Assessing a document, and assessing it again with a section removed     *)
(***************************************************************************)
\* the most lines of a document after its title and mission
MaxAssessLines == 3

\* the title and the mission every assessed document starts with
AssessHeader == <<"#", " ", "Test", " ", "Charity", "\n", ">", " ", "Helping", " ", "people">>

\* the lines the rest of an assessed document is made of
AssessLinePool ==
    { <<"#", "#", " ", "About">>,
      <<"#", "#", " ", "About", " ", "Us">>,
      <<"#", "#", " ", "Services">>,
      <<"#", "#", " ", "For", " ", "Funders">>,
      <<"#", "#", " ", "For", " ", "AI", " ", "Systems">>,
      <<"-", " ", "[", "About", " ", "Us", "]", "(", "https", ":", "/", "/", "example.org", "/", "about", ")", ":", " ", "Learn">>,
      <<"#", " ", "Second", " ", "Heading">> }

\* the text without the sections headed '## name': each heading line with
\* that name and the lines after it up to the next '## ' line
RemoveSection(content, name) ==
    LET lines == SplitLines(content)
        IsHeading(i) == StartsWith(lines[i], H2Mark)
        Owner(i) == IF \E j \in 1..i : IsHeading(j)
                    THEN CHOOSE j \in 1..i :
                            IsHeading(j) /\ \A k \in (j + 1)..i : ~IsHeading(k)
                    ELSE 0
        Kept(i) == Owner(i) = 0 \/ Strip(From(lines[Owner(i)], 3)) # name
        kept == {i \in 1..Len(lines) : Kept(i)}
        Nth(k) == CHOOSE i \in kept : Cardinality({j \in kept : j < i}) = k - 1
    IN  JoinLines([k \in 1..Cardinality(kept) |-> lines[Nth(k)]])

InitAssess ==
    /\ CrawlIdle
    /\ ExtIdle
    /\ doc_pc = "document"
    /\ doc_template = "charity"
    /\ \E ls \in SeqsUpTo(AssessLinePool, MaxAssessLines) :
          doc_content = JoinLines(<<AssessHeader>> \o ls)
    /\ validation = NoResult
    /\ gen_input = NoResult
    /\ assessment = NoResult
    /\ before_edit = NoResult
    /\ removed = <<>>

\* assessor.py:232-324   result = await assessor.assess(content)
AssessDoc ==
    /\ doc_pc \in {"document", "edited"}
    /\ assessment' = assess(doc_content, doc_template)
    /\ doc_pc' = IF doc_pc = "document" THEN "assessed" ELSE "reassessed"
    /\ UNCHANGED <<doc_template, doc_content, validation, gen_input, before_edit, removed>>
    /\ UNCHANGED <<crawlVars, extVars>>

\* the caller takes a required section that is in the assessed document out
\* of the text
RemoveRequiredSection ==
    /\ doc_pc = "assessed"
    /\ \E k \in 1..Len(template_def(doc_template).required_sections) :
          LET name == template_def(doc_template).required_sections[k] IN
          /\ HasSection(_parse_llmstxt(doc_content).sections, name)
          /\ doc_content' = RemoveSection(doc_content, name)
          /\ removed' = name
    /\ before_edit' = [content |-> doc_content, assessment |-> assessment]
    /\ doc_pc' = "edited"
    /\ UNCHANGED <<doc_template, validation, gen_input, assessment>>
    /\ UNCHANGED <<crawlVars, extVars>>

NextAssess ==
    \/ AssessDoc
    \/ RemoveRequiredSection

SpecAssess == InitAssess /\ [][NextAssess]_vars

\* the findings of a result that are critical and about the section
CriticalAbout(result, section) ==
    {i \in 1..Len(result.findings) :
        /\ result.findings[i].severity = "critical"
        /\ result.findings[i].section = section}

\* the critical findings of a result
Criticals(result) ==
    {i \in 1..Len(result.findings) : result.findings[i].severity = "critical"}

\* the critical 'missing' completeness findings of a result about the section
MissingFindings(result, section) ==
    {i \in 1..Len(result.findings) :
        /\ result.findings[i].category = "completeness"
        /\ result.findings[i].severity = "critical"
        /\ result.findings[i].section = section}

\* C9: a required section gets a critical 'missing' completeness finding
\* exactly when alias resolution finds no heading for it.
C9_MissingOnlyWhenNoAlias ==
    doc_pc \in {"assessed", "reassessed"} =>
        \A k \in 1..Len(template_def(doc_template).required_sections) :
            LET section == template_def(doc_template).required_sections[k] IN
            (MissingFindings(assessment, section) # {})
                <=> ~_find_section(section, _parse_llmstxt(doc_content)).found

Reassessed ==
    /\ doc_pc = "reassessed"
    /\ validate_llmstxt(before_edit.content, doc_template).valid

\* the section was removed, completeness_score went down and there is
\* exactly one more critical finding, which is about the removed section
RemovalShows ==
    /\ assessment.completeness_score < before_edit.assessment.completeness_score
    /\ Cardinality(Criticals(assessment))
          = Cardinality(Criticals(before_edit.assessment)) + 1
    /\ Cardinality(CriticalAbout(assessment, removed))
          = Cardinality(CriticalAbout(before_edit.assessment, removed)) + 1

\* C10 (as stated): removing a required section from a valid charity
\* document lowers completeness_score and adds exactly one critical finding,
\* about that section.
C10_RemovalLowersCompleteness == Reassessed => RemovalShows

\* C10 (amended): the same, when no heading that remains in the document
\* resolves to the removed section through _find_section.
C10_RemovalLowersCompletenessNoAlias ==
    (Reassessed /\ ~_find_section(removed, _parse_llmstxt(doc_content)).found)
        => RemovalShows

C10_Witness ==
    /\ Reassessed
    /\ ~_find_section(removed, _parse_llmstxt(doc_content)).found
    /\ removed = <<"Services">>
    /\ HasSection(_parse_llmstxt(doc_content).sections, <<"About">>)
    /\ before_edit.assessment.completeness_score - assessment.completeness_score > 150
    /\ RemovalShows

(***************************************************************************)
(* Page classification: extractor.py, classify_page_type                   *)
(*                                                                         *)
(* The rules match substrings that cut through words ('/fundrais'), so the *)
(* texts of this part are sequences of single characters.                  *)
(***************************************************************************)
\* extractor.py:11-28   the values of the PageType enum
PageType ==
    {"home", "about", "services", "contact", "get_help", "volunteer", "donate",
     "news", "team", "policy", "funding_priorities", "how_to_apply",
     "past_grants", "eligibility", "other"}

\* extractor.py:258-272   in the order the dict is written, which is the order
\* its items() are visited in
url_patterns ==
    << [page_type |-> "contact",
         patterns |-> <<<<"/", "c", "o", "n", "t", "a", "c", "t">>,
                       <<"/", "g", "e", "t", "-", "i", "n", "-", "t", "o", "u", "c", "h">>,
                       <<"/", "r", "e", "a", "c", "h", "-", "u", "s">>>>],
       [page_type |-> "about",
         patterns |-> <<<<"/", "a", "b", "o", "u", "t">>,
                       <<"/", "w", "h", "o", "-", "w", "e", "-", "a", "r", "e">>,
                       <<"/", "o", "u", "r", "-", "s", "t", "o", "r", "y">>,
                       <<"/", "m", "i", "s", "s", "i", "o", "n">>>>],
       [page_type |-> "services",
         patterns |-> <<<<"/", "s", "e", "r", "v", "i", "c", "e", "s">>,
                       <<"/", "w", "h", "a", "t", "-", "w", "e", "-", "d", "o">>,
                       <<"/", "o", "u", "r", "-", "w", "o", "r", "k">>,
                       <<"/", "p", "r", "o", "g", "r", "a", "m", "m", "e", "s">>,
                       <<"/", "p", "r", "o", "g", "r", "a", "m", "s">>>>],
       [page_type |-> "get_help",
         patterns |-> <<<<"/", "g", "e", "t", "-", "h", "e", "l", "p">>,
                       <<"/", "s", "u", "p", "p", "o", "r", "t">>,
                       <<"/", "a", "c", "c", "e", "s", "s">>,
                       <<"/", "r", "e", "f", "e", "r", "r", "a", "l">>>>],
       [page_type |-> "volunteer",
         patterns |-> <<<<"/", "v", "o", "l", "u", "n", "t", "e", "e", "r">>,
                       <<"/", "g", "e", "t", "-", "i", "n", "v", "o", "l", "v", "e", "d">>,
                       <<"/", "j", "o", "i", "n", "-", "u", "s">>>>],
       [page_type |-> "donate",
         patterns |-> <<<<"/", "d", "o", "n", "a", "t", "e">>,
                       <<"/", "s", "u", "p", "p", "o", "r", "t", "-", "u", "s">>,
                       <<"/", "g", "i", "v", "e">>,
                       <<"/", "f", "u", "n", "d", "r", "a", "i", "s">>>>],
       [page_type |-> "news",
         patterns |-> <<<<"/", "n", "e", "w", "s">>,
                       <<"/", "b", "l", "o", "g">>,
                       <<"/", "s", "t", "o", "r", "i", "e", "s">>,
                       <<"/", "u", "p", "d", "a", "t", "e", "s">>,
                       <<"/", "l", "a", "t", "e", "s", "t">>>>],
       [page_type |-> "team",
         patterns |-> <<<<"/", "t", "e", "a", "m">>,
                       <<"/", "s", "t", "a", "f", "f">>,
                       <<"/", "p", "e", "o", "p", "l", "e">>,
                       <<"/", "t", "r", "u", "s", "t", "e", "e", "s">>,
                       <<"/", "o", "u", "r", "-", "t", "e", "a", "m">>>>],
       [page_type |-> "policy",
         patterns |-> <<<<"/", "p", "o", "l", "i", "c", "y">>,
                       <<"/", "p", "o", "l", "i", "c", "i", "e", "s">>,
                       <<"/", "p", "r", "i", "v", "a", "c", "y">>,
                       <<"/", "s", "a", "f", "e", "g", "u", "a", "r", "d", "i", "n", "g">>>>],
       [page_type |-> "funding_priorities",
         patterns |-> <<<<"/", "p", "r", "i", "o", "r", "i", "t", "i", "e", "s">>,
                       <<"/", "f", "u", "n", "d", "i", "n", "g", "-", "p", "r", "i", "o", "r", "i", "t", "i", "e", "s">>,
                       <<"/", "w", "h", "a", "t", "-", "w", "e", "-", "f", "u", "n", "d">>,
                       <<"/", "t", "h", "e", "m", "e", "s">>>>],
       [page_type |-> "how_to_apply",
         patterns |-> <<<<"/", "a", "p", "p", "l", "y">>,
                       <<"/", "a", "p", "p", "l", "i", "c", "a", "t", "i", "o", "n">>,
                       <<"/", "h", "o", "w", "-", "t", "o", "-", "a", "p", "p", "l", "y">>,
                       <<"/", "g", "u", "i", "d", "e", "l", "i", "n", "e", "s">>>>],
       [page_type |-> "past_grants",
         patterns |-> <<<<"/", "g", "r", "a", "n", "t", "s">>,
                       <<"/", "p", "a", "s", "t", "-", "g", "r", "a", "n", "t", "s">>,
                       <<"/", "w", "h", "o", "-", "w", "e", "-", "f", "u", "n", "d">>,
                       <<"/", "g", "r", "a", "n", "t", "e", "e", "s">>>>],
       [page_type |-> "eligibility",
         patterns |-> <<<<"/", "e", "l", "i", "g", "i", "b", "i", "l", "i", "t", "y">>,
                       <<"/", "w", "h", "o", "-", "c", "a", "n", "-", "a", "p", "p", "l", "y">>,
                       <<"/", "c", "r", "i", "t", "e", "r", "i", "a">>>>] >>

\* extractor.py:280-293
keyword_patterns ==
    << [page_type |-> "contact",
         patterns |-> <<<<"c", "o", "n", "t", "a", "c", "t", " ", "u", "s">>,
                       <<"g", "e", "t", " ", "i", "n", " ", "t", "o", "u", "c", "h">>,
                       <<"e", "m", "a", "i", "l", " ", "u", "s">>,
                       <<"p", "h", "o", "n", "e", " ", "u", "s">>>>],
       [page_type |-> "about",
         patterns |-> <<<<"a", "b", "o", "u", "t", " ", "u", "s">>,
                       <<"w", "h", "o", " ", "w", "e", " ", "a", "r", "e">>,
                       <<"o", "u", "r", " ", "m", "i", "s", "s", "i", "o", "n">>,
                       <<"o", "u", "r", " ", "s", "t", "o", "r", "y">>,
                       <<"f", "o", "u", "n", "d", "e", "d">>>>],
       [page_type |-> "services",
         patterns |-> <<<<"o", "u", "r", " ", "s", "e", "r", "v", "i", "c", "e", "s">>,
                       <<"w", "h", "a", "t", " ", "w", "e", " ", "d", "o">>,
                       <<"w", "e", " ", "p", "r", "o", "v", "i", "d", "e">>,
                       <<"w", "e", " ", "o", "f", "f", "e", "r">>>>],
       [page_type |-> "get_help",
         patterns |-> <<<<"g", "e", "t", " ", "h", "e", "l", "p">>,
                       <<"n", "e", "e", "d", " ", "s", "u", "p", "p", "o", "r", "t">>,
                       <<"a", "c", "c", "e", "s", "s", " ", "s", "u", "p", "p", "o", "r", "t">>,
                       <<"h", "o", "w", " ", "t", "o", " ", "a", "c", "c", "e", "s", "s">>>>],
       [page_type |-> "volunteer",
         patterns |-> <<<<"v", "o", "l", "u", "n", "t", "e", "e", "r">>,
                       <<"v", "o", "l", "u", "n", "t", "e", "e", "r", "i", "n", "g">>,
                       <<"b", "e", "c", "o", "m", "e", " ", "a", " ", "v", "o", "l", "u", "n", "t", "e", "e", "r">>>>],
       [page_type |-> "donate",
         patterns |-> <<<<"d", "o", "n", "a", "t", "e">>,
                       <<"d", "o", "n", "a", "t", "i", "o", "n">>,
                       <<"s", "u", "p", "p", "o", "r", "t", " ", "o", "u", "r", " ", "w", "o", "r", "k">>,
                       <<"m", "a", "k", "e", " ", "a", " ", "g", "i", "f", "t">>>>],
       [page_type |-> "news",
         patterns |-> <<<<"l", "a", "t", "e", "s", "t", " ", "n", "e", "w", "s">>,
                       <<"r", "e", "c", "e", "n", "t", " ", "p", "o", "s", "t", "s">>,
                       <<"b", "l", "o", "g">>>>],
       [page_type |-> "team",
         patterns |-> <<<<"o", "u", "r", " ", "t", "e", "a", "m">>,
                       <<"m", "e", "e", "t", " ", "t", "h", "e", " ", "t", "e", "a", "m">>,
                       <<"s", "t", "a", "f", "f">>,
                       <<"t", "r", "u", "s", "t", "e", "e", "s">>>>],
       [page_type |-> "funding_priorities",
         patterns |-> <<<<"f", "u", "n", "d", "i", "n", "g", " ", "p", "r", "i", "o", "r", "i", "t", "i", "e", "s">>,
                       <<"w", "h", "a", "t", " ", "w", "e", " ", "f", "u", "n", "d">>,
                       <<"o", "u", "r", " ", "t", "h", "e", "m", "e", "s">>>>],
       [page_type |-> "how_to_apply",
         patterns |-> <<<<"h", "o", "w", " ", "t", "o", " ", "a", "p", "p", "l", "y">>,
                       <<"a", "p", "p", "l", "i", "c", "a", "t", "i", "o", "n", " ", "p", "r", "o", "c", "e", "s", "s">>,
                       <<"s", "u", "b", "m", "i", "t", " ", "a", "n", " ", "a", "p", "p", "l", "i", "c", "a", "t", "i", "o", "n">>>>],
       [page_type |-> "past_grants",
         patterns |-> <<<<"p", "a", "s", "t", " ", "g", "r", "a", "n", "t", "s">>,
                       <<"p", "r", "e", "v", "i", "o", "u", "s", " ", "g", "r", "a", "n", "t", "s">>,
                       <<"w", "h", "o", " ", "w", "e", " ", "h", "a", "v", "e", " ", "f", "u", "n", "d", "e", "d">>>>],
       [page_type |-> "eligibility",
         patterns |-> <<<<"e", "l", "i", "g", "i", "b", "i", "l", "i", "t", "y">>,
                       <<"w", "h", "o", " ", "c", "a", "n", " ", "a", "p", "p", "l", "y">>,
                       <<"e", "l", "i", "g", "i", "b", "l", "e", " ", "o", "r", "g", "a", "n", "i", "s", "a", "t", "i", "o", "n", "s">>>>] >>

\* ' '.join(parts)
RECURSIVE JoinSpace(_)
JoinSpace(parts) ==
    IF parts = <<>> THEN <<>>
    ELSE IF Len(parts) = 1 THEN parts[1]
    ELSE parts[1] \o <<" ">> \o JoinSpace(Tail(parts))

\* str.endswith
EndsWith(s, p) == Len(s) >= Len(p) /\ SubSeq(s, Len(s) - Len(p) + 1, Len(s)) = p

\* str.rstrip('/')
RECURSIVE RStripSlash(_)
RStripSlash(s) ==
    IF s # <<>> /\ s[Len(s)] = "/" THEN RStripSlash(SubSeq(s, 1, Len(s) - 1)) ELSE s

\* s.split('/')[-1]: what follows the last '/', the whole of s without one
LastSegment(s) ==
    LET slashes == {i \in 1..Len(s) : s[i] = "/"}
        last == IF slashes = {} THEN 0
                ELSE CHOOSE i \in slashes : \A j \in slashes : j <= i
    IN  SubSeq(s, last + 1, Len(s))

\* a rule matches when any of its patterns occurs in the text
RuleMatches(rule, text) ==
    \E k \in 1..Len(rule.patterns) : Contains(text, rule.patterns[k])

\* a mutation of the rule loop: the last matching rule decides
LastMatch(rules, text) ==
    LET hits == {i \in 1..Len(rules) : RuleMatches(rules[i], text)}
    IN  IF hits = {} THEN "none"
        ELSE rules[CHOOSE i \in hits : \A j \in hits : j <= i].page_type

\* extractor.py:275-277, 296-298   for page_type, patterns in rules.items():
\* return the first page_type one of whose patterns is in the text
FirstMatch(rules, text) ==
    LET hits == {i \in 1..Len(rules) : RuleMatches(rules[i], text)}
    IN  IF hits = {} THEN "none"
        ELSE rules[CHOOSE i \in hits : \A j \in hits : i <= j].page_type

\* extractor.py:252   body_text[:1000]
body_sample_len == 1000

\* extractor.py:234-306
classify_page_type(url, title, headings, body_text) ==
    LET url_lower == LowerStr(url)
        title_lower == LowerStr(title)
        headings_text == LowerStr(JoinSpace(headings))
        body_sample == LowerStr(Take(body_text, body_sample_len))
        all_text == url_lower \o <<" ">> \o title_lower \o <<" ">>
                    \o headings_text \o <<" ">> \o body_sample
        by_url == FirstMatch(url_patterns, url_lower)
        by_keyword == FirstMatch(keyword_patterns, all_text)
        stripped == RStripSlash(url_lower)
        path == IF Contains(url_lower, <<"/">>) THEN LastSegment(url_lower) ELSE <<>>
    IN  IF by_url # "none" THEN by_url
        ELSE IF by_keyword # "none" THEN by_keyword
        ELSE IF /\ \/ EndsWith(stripped, <<"/">>)
                   \/ EndsWith(stripped, <<"/", "i", "n", "d", "e", "x", ".", "h", "t", "m", "l">>)
                   \/ EndsWith(stripped, <<"/", "i", "n", "d", "e", "x", ".", "p", "h", "p">>)
                   \/ EndsWith(stripped, <<"/", "h", "o", "m", "e">>)
                /\ \/ path = <<>>
                   \/ path \in {<<"i", "n", "d", "e", "x", ".", "h", "t", "m", "l">>,
                                <<"i", "n", "d", "e", "x", ".", "p", "h", "p">>,
                                <<"h", "o", "m", "e">>}
             THEN "home"
        ELSE "other"

(***************************************************************************)
(* Specification: classifying one page                                     *)
(***************************************************************************)
\* the most path segments of a page's URL
MaxPathSegments == 2

\* scheme and host of the site's URLs
SiteBase == <<"h", "t", "t", "p", "s", ":", "/", "/", "e", "x", "a", "m", "p", "l", "e", ".", "o", "r", "g">>

PathSegments ==
    { <<"/">>,
      <<"/", "c", "o", "n", "t", "a", "c", "t">>,
      <<"/", "C", "o", "n", "t", "a", "c", "t">>,
      <<"/", "a", "b", "o", "u", "t">>,
      <<"/", "h", "o", "m", "e">>,
      <<"/", "i", "n", "d", "e", "x", ".", "h", "t", "m", "l">>,
      <<"/", "p", "a", "g", "e">>,
      <<"/", "f", "u", "n", "d", "r", "a", "i", "s", "i", "n", "g">> }

ClassifyUrls == {SiteBase \o Concat(segs) : segs \in SeqsUpTo(PathSegments, MaxPathSegments)}

ClassifyTitles ==
    { <<"W", "e", "l", "c", "o", "m", "e">>,
      <<"A", "b", "o", "u", "t", " ", "U", "s">> }

ClassifyHeadings ==
    { <<>>,
      << <<"W", "e", "l", "c", "o", "m", "e", " ", "t", "o", " ", "O", "u", "r", " ", "C", "h", "a", "r", "i", "t", "y">> >>,
      << <<"O", "u", "r", " ", "W", "o", "r", "k">>,
         <<"G", "e", "t", " ", "I", "n", " ", "T", "o", "u", "c", "h">> >> }

ClassifyBodies ==
    { <<"H", "o", "m", "e", "p", "a", "g", "e", " ", "c", "o", "n", "t", "e", "n", "t">>,
      <<"E", "m", "a", "i", "l", " ", "u", "s", " ", "a", "t", " ", "h", "e", "l", "l", "o", "@", "e", "x", "a", "m", "p", "l", "e", ".", "o", "r", "g">> }

\* the most calls of classify_page_type on one page
MaxClassifyCalls == 2

InitClassify ==
    /\ CrawlIdle
    /\ DocIdle
    /\ JobIdle
    /\ RecIdle
    /\ SizeIdle
    /\ ApiIdle
    /\ classify_input \in [url : ClassifyUrls, title : ClassifyTitles,
                           headings : ClassifyHeadings, body_text : ClassifyBodies]
    /\ page_type = <<>>

\* extractor.py:234-306   one call of classify_page_type on the page
ClassifyPage ==
    /\ classify_input # NoResult
    /\ Len(page_type) < MaxClassifyCalls
    /\ page_type' = Append(page_type,
                           classify_page_type(classify_input.url, classify_input.title,
                                              classify_input.headings,
                                              classify_input.body_text))
    /\ UNCHANGED classify_input
    /\ UNCHANGED <<crawlVars, docVars, jobVars, recVars, sizeVars, apiVars>>

NextClassify == ClassifyPage

SpecClassify == InitClassify /\ [][NextClassify]_vars

\* the path of the page's URL: what follows scheme and host
UrlPath == From(classify_input.url, Len(SiteBase))

NoRuleMatches ==
    LET inp == classify_input
        all_text == LowerStr(inp.url \o <<" ">> \o inp.title \o <<" ">>
                             \o JoinSpace(inp.headings) \o <<" ">> \o inp.body_text)
    IN  /\ \A i \in 1..Len(url_patterns) : ~RuleMatches(url_patterns[i], LowerStr(inp.url))
        /\ \A i \in 1..Len(keyword_patterns) : ~RuleMatches(keyword_patterns[i], all_text)

\* the URL path is empty (the site root), or its last segment is 'home' or
\* 'index.*', trailing slashes aside
IsHomePath ==
    LET last == LastSegment(RStripSlash(UrlPath))
    IN  \/ last = <<>>
        \/ last = <<"h", "o", "m", "e">>
        \/ StartsWith(last, <<"i", "n", "d", "e", "x", ".">>)

\* C12: a page that matches no URL rule and no keyword rule is classified as
\* home when its URL path is empty, 'index.*' or '/home', and as other
\* otherwise.
C12_HomeByUrlPath ==
    (classify_input # NoResult /\ NoRuleMatches) =>
        \A i \in 1..Len(page_type) :
            page_type[i] = (IF IsHomePath THEN "home" ELSE "other")

(***************************************************************************)
(* Grades and the dismiss-findings recalculation                           *)
(*   packages/api: tasks/generate.py, services/generation.py,              *)
(*                 routes/generate.py                                      *)
(*   packages/cli: cli.py                                                  *)
(*                                                                         *)
(* Scores are held in tenths of a point, as in the assessor.               *)
(***************************************************************************)
\* tasks/generate.py:236-246; the same if-chain stands at
\* services/generation.py:123-133, routes/generate.py:310-319 and
\* cli.py:957-966
compute_grade(score) ==
    IF score >= 900 THEN "A"
    ELSE IF score >= 800 THEN "B"
    ELSE IF score >= 700 THEN "C"
    ELSE IF score >= 600 THEN "D"
    ELSE "F"

\* cli.py:1053   the grade column of the summary table
summary_grade(score) ==
    IF score >= 900 THEN "A"
    ELSE IF score >= 800 THEN "B"
    ELSE IF score >= 700 THEN "C"
    ELSE "D"

\* tasks/generate.py:248-263, services/generation.py:136-149: the stored dict
AssessmentJson(result) ==
    [overall_score |-> result.overall_score,
     completeness_score |-> result.completeness_score,
     quality_score |-> result.quality_score,
     grade |-> compute_grade(result.overall_score),
     findings |-> result.findings]

\* routes/generate.py:297   severity_weights of the recalculation
dismiss_severity_weights(severity) ==
    CASE severity = "critical" -> 25
      [] severity = "major" -> 15
      [] severity = "minor" -> 5
      [] OTHER -> 0

\* findings[i] for the 0-based indices i that are not in dismissed
Remaining(findings, dismissed) ==
    LET keep == {i \in 1..Len(findings) : (i - 1) \notin dismissed}
        nth(k) == CHOOSE i \in keep : Cardinality({j \in keep : j < i}) = k - 1
    IN  [k \in 1..Cardinality(keep) |-> findings[nth(k)]]

\* a mutation of the recalculation: dismissed findings still count
recalculate_all_findings(assessment_json, new_dismissed) ==
    LET findings == assessment_json.findings
        total_deductions ==
            SumSeq([i \in 1..Len(findings) |-> dismiss_severity_weights(findings[i].severity)])
        new_quality_score == IF total_deductions > 100 THEN 0 ELSE 100 - total_deductions
        new_overall_score ==
            (4 * assessment_json.completeness_score + 60 * new_quality_score) \div 100
    IN  [assessment_json EXCEPT !.overall_score = 10 * new_overall_score,
                           !.quality_score = 10 * new_quality_score,
                           !.grade = compute_grade(10 * new_overall_score)]

\* routes/generate.py:289-325   the assessment_json after the recalculation.
\* int(c * 0.4 + q * 0.6) cuts the fraction off: with c in tenths it is
\* (4 * c + 60 * q) \div 100.
recalculate(assessment_json, new_dismissed) ==
    LET remaining_findings == Remaining(assessment_json.findings, new_dismissed)
        total_deductions ==
            SumSeq([i \in 1..Len(remaining_findings) |->
                       dismiss_severity_weights(remaining_findings[i].severity)])
        new_quality_score == IF total_deductions > 100 THEN 0 ELSE 100 - total_deductions
        new_overall_score ==
            (4 * assessment_json.completeness_score + 60 * new_quality_score) \div 100
    IN  [assessment_json EXCEPT !.overall_score = 10 * new_overall_score,
                           !.quality_score = 10 * new_quality_score,
                           !.grade = compute_grade(10 * new_overall_score)]

(***************************************************************************)
(* Specification: one assessment, graded, stored and recalculated          *)
(***************************************************************************)
\* the most findings of an assessment
MaxFindings == 2

\* the most dismiss-findings requests on a job
MaxDismissRequests == 2

\* category and severity of the findings an assessment is made of
FindingKinds ==
    { [category |-> "quality", severity |-> "critical"],
      [category |-> "quality", severity |-> "major"],
      [category |-> "quality", severity |-> "minor"],
      [category |-> "quality", severity |-> "info"],
      [category |-> "completeness", severity |-> "critical"],
      [category |-> "structure", severity |-> "major"] }

\* completeness scores, in tenths
CompletenessPool == {198, 200, 500, 798, 800}

\* assessor.py:783-816 without sections: quality_score from the findings,
\* overall_score the mean of the two scores, each rounded to one decimal
AssessmentResults ==
    { [completeness_score |-> c,
       quality_score |-> _calculate_scores(<<>>, fs, <<>>).quality,
       overall_score |-> RoundHalfEven(c + _calculate_scores(<<>>, fs, <<>>).quality, 2),
       findings |-> fs] : c \in CompletenessPool, fs \in SeqsUpTo(FindingKinds, MaxFindings) }

NoGrades == [service |-> "", report |-> "", summary |-> ""]

InitJob ==
    /\ CrawlIdle
    /\ DocIdle
    /\ ClassifyIdle
    /\ RecIdle
    /\ SizeIdle
    /\ ApiIdle
    /\ assessment_result \in AssessmentResults
    /\ job = NoResult
    /\ grades = NoGrades
    /\ response = 0

\* tasks/generate.py:229-275   generate_paid_task stores the assessment
GeneratePaidTask ==
    /\ assessment_result # NoResult
    /\ job = NoResult
    /\ job' = [assessment_json |-> AssessmentJson(assessment_result),
               dismissed_findings |-> {},
               requests |-> 0]
    /\ UNCHANGED <<assessment_result, grades, response>>
    /\ UNCHANGED <<crawlVars, docVars, classifyVars, recVars, sizeVars, apiVars>>

\* services/generation.py:94-155   assess_llmstxt returns the dict
AssessService ==
    /\ assessment_result # NoResult
    /\ grades.service = ""
    /\ grades' = [grades EXCEPT !.service = AssessmentJson(assessment_result).grade]
    /\ UNCHANGED <<assessment_result, job, response>>
    /\ UNCHANGED <<crawlVars, docVars, classifyVars, recVars, sizeVars, apiVars>>

\* cli.py:876-1030   _output_assessment writes the markdown report
OutputAssessment ==
    /\ assessment_result # NoResult
    /\ grades.report = ""
    /\ grades' = [grades EXCEPT !.report = compute_grade(assessment_result.overall_score)]
    /\ UNCHANGED <<assessment_result, job, response>>
    /\ UNCHANGED <<crawlVars, docVars, classifyVars, recVars, sizeVars, apiVars>>

\* cli.py:1033-1060   _show_assessment_summary prints the table
ShowAssessmentSummary ==
    /\ assessment_result # NoResult
    /\ grades.summary = ""
    /\ grades' = [grades EXCEPT !.summary = summary_grade(assessment_result.overall_score)]
    /\ UNCHANGED <<assessment_result, job, response>>
    /\ UNCHANGED <<crawlVars, docVars, classifyVars, recVars, sizeVars, apiVars>>

\* routes/generate.py:244-331   POST /jobs/{job_id}/dismiss-findings
DismissFindings ==
    /\ assessment_result # NoResult
    /\ \E dismissed_indices \in SUBSET (0..MaxFindings) :
          IF job = NoResult
          THEN \* no such job
               /\ response' = HTTP_NOT_FOUND
               /\ UNCHANGED job
          ELSE /\ job.requests < MaxDismissRequests
               /\ IF \E i \in dismissed_indices : i >= Len(job.assessment_json.findings)
                  THEN /\ response' = 400
                       /\ job' = [job EXCEPT !.requests = @ + 1]
                  ELSE LET new_dismissed == job.dismissed_findings \cup dismissed_indices
                       IN  /\ response' = HTTP_OK
                           /\ job' = [assessment_json |->
                                          recalculate(job.assessment_json, new_dismissed),
                                      dismissed_findings |-> new_dismissed,
                                      requests |-> job.requests + 1]
    /\ UNCHANGED <<assessment_result, grades>>
    /\ UNCHANGED <<crawlVars, docVars, classifyVars, recVars, sizeVars, apiVars>>

NextJob ==
    \/ GeneratePaidTask
    \/ AssessService
    \/ OutputAssessment
    \/ ShowAssessmentSummary
    \/ DismissFindings

SpecJob == InitJob /\ [][NextJob]_vars

\* the mapping from score (in tenths) to letter that the claims state
GradeMapping(score) ==
    CASE score >= 900 -> "A"
      [] score >= 800 /\ score < 900 -> "B"
      [] score >= 700 /\ score < 800 -> "C"
      [] score >= 600 /\ score < 700 -> "D"
      [] OTHER -> "F"

\* C13: every place that derives a letter grade from overall_score (the paid
\* generation task, the assessment service, the dismiss-findings
\* recalculation, the CLI report and the CLI summary) gives A from 90, B from
\* 80, C from 70, D from 60 and F below 60.
C13_SameGradeEverywhere ==
    /\ job # NoResult =>
          job.assessment_json.grade = GradeMapping(job.assessment_json.overall_score)
    /\ assessment_result # NoResult =>
          \A place \in {"service", "report", "summary"} :
              grades[place] # "" =>
                  grades[place] = GradeMapping(assessment_result.overall_score)

\* the last request recalculated the job's scores
Recalculated == job # NoResult /\ response = HTTP_OK

\* 100 less the recalculation's deductions for the findings that remain, not
\* below 0
RemainingQuality ==
    LET fs == job.assessment_json.findings
        deductions ==
            SumSeq([i \in 1..Len(fs) |->
                       IF (i - 1) \in job.dismissed_findings THEN 0
                       ELSE CASE fs[i].severity = "critical" -> 25
                              [] fs[i].severity = "major" -> 15
                              [] fs[i].severity = "minor" -> 5
                              [] OTHER -> 0])
    IN  IF deductions >= 100 THEN 0 ELSE 100 - deductions

\* C14 as stated: the recalculation leaves completeness_score unchanged, sets
\* quality_score to max(0, 100 - deductions of the remaining findings) and
\* overall_score to round(0.4 * completeness_score + 0.6 * quality_score).
C14_DismissRounds ==
    Recalculated =>
        LET a == job.assessment_json
        IN  /\ a.completeness_score = assessment_result.completeness_score
            /\ a.quality_score = 10 * RemainingQuality
            /\ a.overall_score =
                  10 * RoundHalfEven(4 * a.completeness_score + 60 * RemainingQuality, 100)

\* C14 amended: as above, with overall_score the integer part of
\* 0.4 * completeness_score + 0.6 * quality_score.
C14_DismissTruncates ==
    Recalculated =>
        LET a == job.assessment_json
            weighted == 4 * a.completeness_score + 60 * RemainingQuality
        IN  /\ a.completeness_score = assessment_result.completeness_score
            /\ a.quality_score = 10 * RemainingQuality
            /\ a.overall_score = 10 * ((weighted - (weighted % 100)) \div 100)

\* a critical finding was dismissed from an assessment with completeness 50,
\* one major finding remains: quality 85, overall 71
C14_Witness ==
    /\ Recalculated
    /\ job.dismissed_findings = {0}
    /\ Len(job.assessment_json.findings) = 2
    /\ job.assessment_json.findings[1].severity = "critical"
    /\ job.assessment_json.findings[2].severity = "major"
    /\ job.assessment_json.completeness_score = 500
    /\ job.assessment_json.quality_score = 850
    /\ job.assessment_json.overall_score = 710

\* C15: the recalculation deducts the severity weights of assess(): when
\* nothing is dismissed from an assessment whose findings are all of category
\* quality or completeness, the recalculated quality_score is the one assess()
\* computed.
C15_SameWeightsAsAssess ==
    (/\ Recalculated
     /\ job.dismissed_findings = {}
     /\ \A i \in 1..Len(assessment_result.findings) :
           assessment_result.findings[i].category \in {"quality", "completeness"})
    => job.assessment_json.quality_score = assessment_result.quality_score

(***************************************************************************)
(* Recommendations: assessor.py, _generate_recommendations                 *)
(***************************************************************************)
\* assessor.py:819-846   TEMPLATE_RECOMMENDATIONS.get(template_type, [])
TEMPLATE_RECOMMENDATIONS(template_type) ==
    CASE template_type = "charity" ->
        << <<"Ensure", " ", "beneficiaries", " ", "are", " ", "clearly", " ", "described", " ", "so", " ", "people", " ", "know", " ", "who", " ", "you", " ", "help">>,
           <<"Add", " ", "impact", " ", "metrics", " ", "to", " ", "demonstrate", " ", "outcomes">>,
           <<"Include", " ", "clear", " ", "information", " ", "for", " ", "potential", " ", "funders">>,
           <<"Make", " ", "sure", " ", "service", " ", "descriptions", " ", "help", " ", "people", " ", "find", " ", "the", " ", "right", " ", "support">> >>
      [] template_type = "funder" ->
        << <<"Clearly", " ", "state", " ", "funding", " ", "priorities", " ", "and", " ", "themes">>,
           <<"Include", " ", "eligibility", " ", "criteria", " ", "so", " ", "applicants", " ", "can", " ", "self", "-", "assess", " ", "fit">>,
           <<"Describe", " ", "the", " ", "application", " ", "process", " ", "and", " ", "timeline">>,
           <<"Mention", " ", "typical", " ", "grant", " ", "sizes", " ", "or", " ", "ranges", " ", "if", " ", "possible">> >>
      [] template_type = "public_sector" ->
        << <<"Ensure", " ", "each", " ", "service", " ", "has", " ", "clear", " ", "access", " ", "information">>,
           <<"Include", " ", "eligibility", " ", "criteria", " ", "for", " ", "services">>,
           <<"Add", " ", "comprehensive", " ", "contact", " ", "information", " ", "including", " ", "hours">>,
           <<"Describe", " ", "how", " ", "residents", " ", "can", " ", "access", " ", "support">> >>
      [] template_type = "startup" ->
        << <<"Clearly", " ", "explain", " ", "what", " ", "problem", " ", "your", " ", "product", " ", "solves">>,
           <<"Define", " ", "your", " ", "target", " ", "customers", " ", "specifically">>,
           <<"Include", " ", "pricing", " ", "information", " ", "if", " ", "publicly", " ", "available">>,
           <<"Add", " ", "customer", " ", "success", " ", "stories", " ", "or", " ", "use", " ", "cases">>,
           <<"Include", " ", "investor", "-", "relevant", " ", "information", " ", "if", " ", "seeking", " ", "funding">> >>
      [] OTHER -> <<>>

\* a recommendation: its text and, where the text ends in ', '.join(a_set),
\* the set that is joined (the order of the join is the set's own)
Rec(text, sections) == [text |-> text, sections |-> sections]

\* set(f.section for f in fs if f.section), fs the findings at the indices in at
SectionsOf(findings, at) ==
    {findings[i].section : i \in {k \in at : Truthy(findings[k].section)}}

\* assessor.py:886-895   the loop over template_recs: stops at four
\* recommendations, skips a text that names a section with a finding
RECURSIVE TemplateRecs(_, _, _)
TemplateRecs(template_recs, recommendations, existing_sections) ==
    IF template_recs = <<>> \/ Len(recommendations) >= 4 THEN recommendations
    ELSE LET rec == template_recs[1]
             covered == \E section \in existing_sections :
                            Contains(LowerStr(rec), LowerStr(section))
         IN  TemplateRecs(Tail(template_recs),
                          IF covered THEN recommendations
                          ELSE Append(recommendations, Rec(rec, {})),
                          existing_sections)

\* assessor.py:904-913   messages.get(self.template_type, ...)
PositiveMessage(template_type) ==
    CASE template_type = "charity" ->
           <<"Your llms.txt is in good shape! Consider adding more impact metrics or beneficiary stories.">>
      [] template_type = "funder" ->
           <<"Your llms.txt is comprehensive! Consider adding examples of successful past grants.">>
      [] template_type = "public_sector" ->
           <<"Your llms.txt covers the essentials! Consider adding more service-specific details.">>
      [] template_type = "startup" ->
           <<"Your llms.txt is well-structured! Consider adding customer testimonials or case studies.">>
      [] OTHER -> <<"Your llms.txt file is in good shape!">>

\* assessor.py:854-902   priorities 1 to 5, before the positive message.
\* website_gaps and org_size are NoResult for Python's None.
PriorityRecs(findings, website_gaps, org_size, template_type) ==
    LET all == 1..Len(findings)
        critical_findings == {i \in all : findings[i].severity = "critical"}
        major_findings == {i \in all : findings[i].severity = "major"}
        missing_sections == SectionsOf(findings, critical_findings)
        p1 == IF missing_sections # {}
              THEN <<Rec(<<"Add required sections: ">>, missing_sections)>> ELSE <<>>
        completeness_sections ==
            SectionsOf(findings, {i \in major_findings : findings[i].category = "completeness"})
        quality_sections ==
            SectionsOf(findings, {i \in major_findings : findings[i].category = "quality"})
        p2 == (IF completeness_sections # {}
               THEN <<Rec(<<"Expand content in: ">>, completeness_sections)>> ELSE <<>>)
              \o (IF quality_sections # {}
                  THEN <<Rec(<<"Improve content quality in: ">>, quality_sections)>> ELSE <<>>)
        p3 == IF website_gaps # NoResult /\ NonEmpty(website_gaps.suggested_pages)
              THEN <<Rec(<<"Website: ">> \o website_gaps.suggested_pages[1], {})>> ELSE <<>>
        p4 == TemplateRecs(TEMPLATE_RECOMMENDATIONS(template_type), p1 \o p2 \o p3,
                           SectionsOf(findings, all))
        impact_issues == {i \in all : /\ Truthy(findings[i].section)
                                      /\ Contains(findings[i].section, <<"Impact">>)}
        p5 == IF /\ org_size # NoResult
                 /\ template_type = "charity"
                 /\ org_size.category \in {"large", "major"}
                 /\ impact_issues # {}
              THEN <<Rec(<<"Add detailed impact metrics and outcomes data (expected for organizations of your size)">>, {})>>
              ELSE <<>>
    IN  p4 \o p5

\* a mutation: no positive message for an empty list
_generate_recommendations_no_message(findings, website_gaps, org_size, template_type) ==
    Take(PriorityRecs(findings, website_gaps, org_size, template_type), 5)

\* assessor.py:847-914
_generate_recommendations(findings, website_gaps, org_size, template_type) ==
    LET recommendations == PriorityRecs(findings, website_gaps, org_size, template_type)
    IN  Take(IF recommendations = <<>>
             THEN <<Rec(PositiveMessage(template_type), {})>>
             ELSE recommendations, 5)

(***************************************************************************)
(* Specification: the recommendations for a set of findings                *)
(***************************************************************************)
\* the most findings handed to _generate_recommendations
MaxRecFindings == 4

\* the findings recommendations are drawn from
RecFindingKinds ==
    << Finding("completeness", "critical", <<"Missing required section">>, <<"About">>, None, None),
       Finding("structure", "critical", <<"Missing H1 heading">>, None, None, None),
       Finding("completeness", "major", <<"Section is thin">>, <<"Impact">>, None, None),
       Finding("quality", "major", <<"Vague">>, <<"Funders">>, None, None),
       Finding("quality", "minor", <<"Vague">>, <<"Impact">>, None, None),
       Finding("quality", "minor", <<"Vague">>, <<"Beneficiaries">>, None, None),
       Finding("quality", "info", <<"Vague">>, <<"Support">>, None, None),
       Finding("quality", "minor", <<"Vague">>, <<"Funders">>, None, None) >>

\* the elements of s at the indices in at, in the order of s
Pick(s, at) ==
    LET nth(k) == CHOOSE i \in at : Cardinality({j \in at : j < i}) = k - 1
    IN  [k \in 1..Cardinality(at) |-> s[nth(k)]]

RecInputs ==
    [findings : {Pick(RecFindingKinds, at) :
                    at \in {a \in SUBSET (1..Len(RecFindingKinds)) :
                               Cardinality(a) <= MaxRecFindings}},
     website_gaps : {NoResult, [suggested_pages |-> <<>>],
                     [suggested_pages |-> <<<<"Add", " ", "a", " ", "contact", " ", "page">>>>]},
     org_size : {NoResult, [category |-> "small"], [category |-> "large"]},
     template_type : {"charity", "funder", "public_sector", "startup", "other"}]

InitRecommend ==
    /\ CrawlIdle
    /\ DocIdle
    /\ ClassifyIdle
    /\ JobIdle
    /\ SizeIdle
    /\ ApiIdle
    /\ ai_response = NoResult
    /\ rec_input \in RecInputs
    /\ rec_result = NoResult

\* assessor.py:847-914   one call of _generate_recommendations
GenerateRecommendations ==
    /\ rec_input # NoResult
    /\ rec_result = NoResult
    /\ rec_result' =
          [recommendations |->
              _generate_recommendations(rec_input.findings, rec_input.website_gaps,
                                        rec_input.org_size, rec_input.template_type)]
    /\ UNCHANGED <<ai_response, rec_input>>
    /\ UNCHANGED <<crawlVars, docVars, classifyVars, jobVars, sizeVars, apiVars>>

NextRecommend == GenerateRecommendations

SpecRecommend == InitRecommend /\ [][NextRecommend]_vars

\* the positive message is among the recommendations
HasPositiveMessage ==
    \E i \in 1..Len(rec_result.recommendations) :
        rec_result.recommendations[i].text = PositiveMessage(rec_input.template_type)

\* C17: the recommendations list has at least 1 and at most 5 entries, and
\* the positive message is in it only when it is the only entry.
C17_OneToFiveRecommendations ==
    rec_result # NoResult =>
        /\ Len(rec_result.recommendations) >= 1
        /\ Len(rec_result.recommendations) <= 5
        /\ HasPositiveMessage => Len(rec_result.recommendations) = 1

\* five recommendations were produced
C17_Witness ==
    /\ rec_result # NoResult
    /\ Len(rec_result.recommendations) = 5

\* the positive message was produced for a charity whose findings name a
\* section of every template recommendation
C17_WitnessMessage ==
    /\ rec_result # NoResult
    /\ rec_input.template_type = "charity"
    /\ HasPositiveMessage

(***************************************************************************)
(* AI quality analysis: assessor.py, _ai_quality_analysis and steps 7 to 9 *)
(* of assess                                                               *)
(*                                                                         *)
(* What the LLM client does is one of                                      *)
(*   [kind |-> "raises"]           messages.create raises (network error,  *)
(*                                 timeout)                                *)
(*   [kind |-> "text", json |-> v] it returns a text; v is what json.loads *)
(*                                 makes of the text's JSON part:          *)
(*     [type |-> "invalid"]            json.loads raises                   *)
(*     [type |-> "number"]             a JSON number                       *)
(*     [type |-> "object", keys |-> n] a JSON object with n keys           *)
(*     [type |-> "array", items |-> s] a JSON array                        *)
(* An item of an array is [type |-> "string"] or                           *)
(* [type |-> "object", fields |-> a record of the object's members].       *)
(***************************************************************************)
\* len(s) of a text: the characters of its tokens
CharLen(s) == SumSeq([i \in 1..Len(s) |-> Len(s[i])])

\* assessor.py:748-754   the AssessmentFinding of one issue; the mapping
\* raises (KeyError, TypeError) unless the issue is an object with the members
\* severity (a name of IssueSeverity in any case), issue, why_matters and
\* suggestion
IssueRaises(issue) ==
    \/ issue.type # "object"
    \/ {"severity", "issue", "why_matters", "suggestion"} \ DOMAIN issue.fields # {}
    \/ Lower(issue.fields.severity) \notin {"critical", "major", "minor", "info"}

IssueFinding(issue) ==
    Finding("quality", Lower(issue.fields.severity),
            issue.fields.issue \o <<" ", "-", " ">> \o issue.fields.why_matters,
            IF "section" \in DOMAIN issue.fields THEN issue.fields.section ELSE None,
            issue.fields.suggestion, None)

\* assessor.py:747-754   for issue in issues: findings.append(...), up to the
\* issue that raises
RECURSIVE IssueLoop(_, _)
IssueLoop(issues, findings) ==
    IF issues = <<>> THEN [raised |-> FALSE, findings |-> findings]
    ELSE IF IssueRaises(issues[1]) THEN [raised |-> TRUE, findings |-> findings]
    ELSE IssueLoop(Tail(issues), Append(findings, IssueFinding(issues[1])))

\* assessor.py:745-756   iterating what json.loads returned: a number is not
\* iterable, iterating an object yields its keys, which are no issue objects
ParsedIssues(value) ==
    CASE value.type = "array" -> IssueLoop(value.items, <<>>)
      [] value.type = "object" -> [raised |-> value.keys > 0, findings |-> <<>>]
      [] OTHER -> [raised |-> TRUE, findings |-> <<>>]

\* assessor.py:668   len(llmstxt_content.strip()) < 50
min_ai_content_len == 50

\* a mutation: the except branch returns the findings made so far
_ai_quality_analysis_partial(llmstxt_content, client) ==
    IF llmstxt_content = <<>> \/ CharLen(Strip(llmstxt_content)) < min_ai_content_len THEN <<>>
    ELSE IF client.kind = "raises" THEN <<>>
    ELSE ParsedIssues(client.json).findings

\* assessor.py:665-761   client is what self.client does when called
_ai_quality_analysis(llmstxt_content, client) ==
    IF llmstxt_content = <<>> \/ CharLen(Strip(llmstxt_content)) < min_ai_content_len THEN <<>>
    ELSE IF client.kind = "raises" THEN <<>>
    ELSE LET parsed == ParsedIssues(client.json)
         IN  IF parsed.raised THEN <<>> ELSE parsed.findings

\* assessor.py:310-324   step 9 and the AssessmentResult returned
ScoredAssessment(steps_1_to_4, findings, scores, template_type) ==
    [template_type |-> template_type,
     overall_score |-> scores.overall,
     completeness_score |-> scores.completeness,
     quality_score |-> scores.quality,
     section_assessments |-> steps_1_to_4.section_assessments,
     findings |-> findings,
     recommendations |-> _generate_recommendations(findings, NoResult, NoResult,
                                                   template_type),
     scores |-> scores]

\* assessor.py:307-308   step 8: the scores of all findings
AssessmentOf(steps_1_to_4, findings, template_type) ==
    ScoredAssessment(steps_1_to_4, findings,
                     _calculate_scores(steps_1_to_4.section_assessments, findings,
                                       template_def(template_type).required_sections),
                     template_type)

\* assessor.py:302-305   step 7: findings.extend(quality_findings)
WithQualityFindings(steps_1_to_4, quality_findings, template_type) ==
    AssessmentOf(steps_1_to_4, steps_1_to_4.findings \o quality_findings, template_type)

\* assessor.py:232-324   assess(llmstxt_content) with no crawl result and no
\* enrichment data: steps 1 to 4 as without a client, then steps 7 to 9.
\* client is NoResult when the assessor has none.  The results of steps 1 to 4
\* and of the analysis are computed once and bound as values.
assess_with_client(llmstxt_content, template_type, client) ==
    CHOOSE result \in
        {WithQualityFindings(steps_1_to_4, quality_findings, template_type) :
            steps_1_to_4 \in {assess(llmstxt_content, template_type)},
            quality_findings \in {IF client # NoResult
                                  THEN _ai_quality_analysis(llmstxt_content, client)
                                  ELSE <<>>}} : TRUE

(***************************************************************************)
(* Specification: assessing a document with an LLM client                  *)
(***************************************************************************)
\* the most lines of a document assessed with a client, after its title and
\* mission
MaxAiDocLines == 2

\* the most issues in the LLM's answer
MaxIssues == 2

\* the lines the rest of such a document is made of
AiLinePool ==
    { <<"#", "#", " ", "About">>,
      <<"#", "#", " ", "Services">>,
      <<"-", " ", "[", "About", " ", "Us", "]", "(", "https", ":", "/", "/", "example.org", "/", "about", ")", ":", " ", "Learn">> }

WellFormedIssue ==
    [type |-> "object",
     fields |-> [section |-> <<"About">>, issue |-> <<"Descriptions", " ", "are", " ", "vague">>,
                 why_matters |-> <<"AI", " ", "systems", " ", "cannot", " ", "tell">>,
                 suggestion |-> <<"Add", " ", "details">>, severity |-> "Major"]]

\* the items of the LLM's answer: two well-formed issues and three that are not
IssuePool ==
    { WellFormedIssue,
      [type |-> "object",
       fields |-> [issue |-> <<"Too", " ", "short">>, why_matters |-> <<"Unclear">>,
                   suggestion |-> <<"Expand">>, severity |-> "critical"]],
      [type |-> "object",
       fields |-> [section |-> <<"About">>, issue |-> <<"Too", " ", "short">>,
                   why_matters |-> <<"Unclear">>, severity |-> "minor"]],
      [type |-> "object",
       fields |-> [section |-> <<"About">>, issue |-> <<"Too", " ", "short">>,
                   why_matters |-> <<"Unclear">>, suggestion |-> <<"Expand">>,
                   severity |-> "blocker"]],
      [type |-> "string"] }

\* what the client may do
AiResponses ==
    {[kind |-> "raises"]}
    \cup {[kind |-> "text", json |-> v] :
            v \in {[type |-> "invalid"], [type |-> "number"],
                   [type |-> "object", keys |-> 0], [type |-> "object", keys |-> 1]}
                  \cup {[type |-> "array", items |-> s] : s \in SeqsUpTo(IssuePool, MaxIssues)}}

InitAssessAI ==
    /\ CrawlIdle
    /\ ClassifyIdle
    /\ JobIdle
    /\ SizeIdle
    /\ ApiIdle
    /\ doc_pc = "document"
    /\ doc_template = "charity"
    /\ \/ doc_content = <<"#", " ", "Test">>
       \/ \E ls \in SeqsUpTo(AiLinePool, MaxAiDocLines) :
             doc_content = JoinLines(<<AssessHeader>> \o ls)
    /\ validation = NoResult
    /\ gen_input = NoResult
    /\ assessment = NoResult
    /\ before_edit = NoResult
    /\ removed = <<>>
    /\ ai_response \in AiResponses
    /\ rec_input = NoResult
    /\ rec_result = NoResult

\* assessor.py:232-324   result = await LLMSTxtAssessor(template, client).assess(content)
AssessWithClient ==
    /\ doc_pc = "document"
    /\ ai_response # NoResult
    /\ assessment' = assess_with_client(doc_content, doc_template, ai_response)
    /\ doc_pc' = "assessed_ai"
    /\ UNCHANGED <<doc_template, doc_content, validation, gen_input, before_edit, removed>>
    /\ UNCHANGED <<crawlVars, extVars>>

NextAssessAI == AssessWithClient

SpecAssessAI == InitAssessAI /\ [][NextAssessAI]_vars

\* the quality-analysis call failed: the client raised, or its answer is not
\* a JSON array of well-formed issue objects
AiCallFailed ==
    \/ ai_response.kind = "raises"
    \/ /\ ai_response.kind = "text"
       /\ \/ ai_response.json.type # "array"
          \/ \E i \in 1..Len(ai_response.json.items) : IssueRaises(ai_response.json.items[i])

\* C16: when the quality-analysis call of a configured LLM client fails,
\* assess() returns the result of the same call with no client configured:
\* same scores, findings and recommendations, no finding of the failed call
\* kept.
C16_AiFailureLeavesNoTrace ==
    (doc_pc = "assessed_ai" /\ AiCallFailed) =>
        assessment = assess_with_client(doc_content, doc_template, NoResult)

\* a document long enough for the call was assessed with a client whose
\* answer has a well-formed issue followed by a malformed one
C16_Witness ==
    /\ doc_pc = "assessed_ai"
    /\ CharLen(Strip(doc_content)) >= min_ai_content_len
    /\ ai_response.kind = "text"
    /\ ai_response.json.type = "array"
    /\ Len(ai_response.json.items) = 2
    /\ ~IssueRaises(ai_response.json.items[1])
    /\ IssueRaises(ai_response.json.items[2])


(***************************************************************************)
(* Crawler: what link discovery returns, and the delay between requests    *)
(***************************************************************************)
\* _discover_urls has returned: the page loop runs on list(urls)
DiscoveryReturned ==
    /\ mode = "http"
    /\ pc \in {"fetch", "done"}
    /\ sitemap_urls = <<>>

\* C19: link discovery returns only URLs on the host of the start URL, found
\* within link depth 2 of the start page, and never more than 2 x max_pages
\* distinct URLs, however many links the visited pages contain.
C19_DiscoveryBounded ==
    (DiscoveryReturned /\ max_pages > 0) =>
        /\ \A i \in 1..Len(urls_to_crawl) : _is_internal_url(urls_to_crawl[i])
        /\ d_depth <= max_depth
        /\ Cardinality(Range(urls_to_crawl)) <= DiscoverFactor * max_pages

\* C20: a delay of rate_limit seconds elapses between any two consecutive page
\* requests of one crawl, whatever the earlier request returned or raised, in
\* link discovery as well as in the page loop.
C20_DelayBetweenRequests ==
    mode = "http" => ~back_to_back


(***************************************************************************)
(* Crawler: sitemap indexes                                                *)
(*                                                                         *)
(* The site serves sitemap documents 1..NumSitemaps; document k is what    *)
(* the k-th well-known location returns.  A document is missing (any       *)
(* answer but 200), a regular sitemap with page URLs, or a sitemap index   *)
(* listing other documents.  _parse_sitemap is followed call by call, the  *)
(* active calls kept in sm_stack.                                          *)
(***************************************************************************)
\* the sitemap documents of a site
NumSitemaps == 2
SitemapNames == 1..NumSitemaps

\* The depth of nested _parse_sitemap calls at which the interpreter raises
\* RecursionError (sys.getrecursionlimit() frames in CPython), scaled down to
\* one more than the deepest chain an acyclic site of SitemapNames can have.
RecursionLimit == NumSitemaps + 1

MissingSitemap == [kind |-> "missing", urls |-> <<>>, subs |-> {}]
SitemapDocs ==
    {MissingSitemap}
    \cup {[kind |-> "urlset", urls |-> u, subs |-> {}] : u \in {<<>>, <<StartUrl>>}}
    \cup {[kind |-> "index", urls |-> <<>>, subs |-> S] :
              S \in (SUBSET SitemapNames) \ {{}}}

\* crawler.py:127-129: what the k-th well-known location returns
LocationDoc(k) == IF k \in SitemapNames THEN sm_site[k] ELSE MissingSitemap

\* crawler.py:144-147: sub_sitemaps, the <loc> of every <sitemap> element
sub_sitemaps(name) == Ascending(sm_site[name].subs)

\* a call of _parse_sitemap on the text of document name
Frame(name) == [name |-> name, i |-> 1, urls |-> <<>>]

\* a sub-sitemap is parsed only if no request has fetched it before
SubSitemapParsedOnce(sub) ==
    sm_site[sub].kind # "missing" /\ sub \notin Range(sm_fetched)

\* crawler.py:155-157: a sub-sitemap is parsed whenever its request returns 200
SubSitemapParsed(sub) == sm_site[sub].kind # "missing"

\* crawler.py:127-135: _fetch_sitemap_urls requests one well-known location
FetchSitemapLocation ==
    /\ pc = "sitemap"
    /\ sm_site # NoResult
    /\ sm_fetched' = Append(sm_fetched, sitemap_loc)
    /\ IF LocationDoc(sitemap_loc).kind # "missing"
       THEN /\ sm_stack' = <<Frame(sitemap_loc)>>
            /\ sm_entry' = sitemap_loc
            /\ pc' = "parse_sitemap"
            /\ UNCHANGED <<sitemap_loc, sitemap_urls, urls_to_crawl, idx, d_urls,
                           d_queue, d_depth>>
       ELSE /\ UNCHANGED <<sm_stack, sm_entry>>
            /\ IF sitemap_loc < SitemapLocations
               THEN /\ sitemap_loc' = sitemap_loc + 1
                    /\ UNCHANGED <<pc, sitemap_urls, urls_to_crawl, idx, d_urls,
                                   d_queue, d_depth>>
               ELSE SitemapDone(<<>>) /\ UNCHANGED sitemap_loc
    /\ UNCHANGED <<docVars, extVars, rateVars, sm_site, sm_overflowed>>
    /\ UNCHANGED <<mode, max_pages, respect_robots, host_down, robot_parser, d_next,
                   d_i, visited_urls, pages, requested, raised, caught_at>>

\* crawler.py:152-161: one sub_url of a sitemap index.  The recursive call is
\* inside the try block: the RecursionError of a call nested too deeply is
\* caught by "except Exception" and the loop continues with the next sub_url.
FetchSubSitemap ==
    /\ pc = "parse_sitemap"
    /\ LET d   == Len(sm_stack)
           top == sm_stack[d]
           subs == sub_sitemaps(top.name)
       IN  /\ top.i <= Len(subs)
           /\ sm_fetched' = Append(sm_fetched, subs[top.i])
           /\ LET caller == [sm_stack EXCEPT ![d].i = top.i + 1] IN
              IF ~SubSitemapParsed(subs[top.i])
              THEN sm_stack' = caller /\ UNCHANGED sm_overflowed
              ELSE IF d >= RecursionLimit
                   THEN sm_stack' = caller /\ sm_overflowed' = TRUE
                   ELSE /\ sm_stack' = Append(caller, Frame(subs[top.i]))
                        /\ UNCHANGED sm_overflowed
    /\ UNCHANGED <<docVars, extVars, rateVars, sm_site, sm_entry>>
    /\ UNCHANGED <<mode, max_pages, respect_robots, host_down, robot_parser, pc,
                   sitemap_loc, sitemap_urls, d_urls, d_queue, d_next, d_depth, d_i,
                   visited_urls, urls_to_crawl, idx, pages, requested, raised,
                   caught_at>>

\* crawler.py:158,162-178: a call of _parse_sitemap returns its urls, to the
\* call that made it (urls.extend(sub_urls)) or to crawl_site (lines 71-81)
ReturnFromParseSitemap ==
    /\ pc = "parse_sitemap"
    /\ LET d   == Len(sm_stack)
           top == sm_stack[d]
           urls == IF sm_site[top.name].kind = "index" THEN top.urls
                   ELSE sm_site[top.name].urls
       IN  /\ top.i > Len(sub_sitemaps(top.name))
           /\ IF d > 1
              THEN /\ sm_stack' = [SubSeq(sm_stack, 1, d - 1) EXCEPT
                                      ![d - 1].urls = sm_stack[d - 1].urls \o urls]
                   /\ UNCHANGED <<pc, sitemap_urls, urls_to_crawl, idx, d_urls,
                                  d_queue, d_depth>>
              ELSE /\ sm_stack' = <<>>
                   /\ SitemapDone(urls)
    /\ UNCHANGED <<docVars, extVars, rateVars, sm_site, sm_entry, sm_fetched,
                   sm_overflowed>>
    /\ UNCHANGED <<mode, max_pages, respect_robots, host_down, robot_parser,
                   sitemap_loc, d_next, d_i, visited_urls, pages, requested, raised,
                   caught_at>>

\* crawler.py:32-44,59: WebCrawler(max_pages=1, respect_robots=False) on a site whose
\* sitemap documents are any of SitemapDocs
InitSitemap ==
    /\ mode = "http"
    /\ max_pages = 1
    /\ respect_robots = FALSE
    /\ host_down = FALSE
    /\ robot_parser = NoParser
    /\ pc = "robots"
    /\ sitemap_loc = 1
    /\ sitemap_urls = <<>>
    /\ d_urls = {StartUrl}
    /\ d_queue = <<>>
    /\ d_next = <<>>
    /\ d_depth = 0
    /\ d_i = 1
    /\ visited_urls = {}
    /\ urls_to_crawl = <<>>
    /\ idx = 1
    /\ pages = <<>>
    /\ requested = {}
    /\ raised = FALSE
    /\ caught_at = -1
    /\ sm_site \in [SitemapNames -> SitemapDocs]
    /\ sm_stack = <<>>
    /\ sm_entry = 0
    /\ sm_fetched = <<>>
    /\ sm_overflowed = FALSE
    /\ RateIdle
    /\ DocIdle
    /\ ExtIdle

NextSitemap ==
    \/ FetchRobotsTxt
    \/ FetchSitemapLocation
    \/ FetchSubSitemap
    \/ ReturnFromParseSitemap
    \/ DiscoverWhile
    \/ DiscoverVisit
    \/ DiscoverEndLevel
    \/ FetchPageStep
    \/ ReturnResult

SpecSitemap == InitSitemap /\ [][NextSitemap]_vars

\* the sitemaps a sitemap refers to and _parse_sitemap goes into
Refs(name) == {sub \in sm_site[name].subs : sm_site[sub].kind # "missing"}

RECURSIVE ReachableFrom(_)
ReachableFrom(S) ==
    LET T == S \cup UNION {Refs(name) : name \in S}
    IN  IF T = S THEN S ELSE ReachableFrom(T)

\* the sub-sitemap references reachable from the first sitemap hold a cycle
CyclicIndex ==
    /\ sm_entry # 0
    /\ \E name \in ReachableFrom({sm_entry}) : name \in ReachableFrom(Refs(name))

\* the requests made for sitemap name
TimesFetched(name) == Cardinality({k \in 1..Len(sm_fetched) : sm_fetched[k] = name})

\* C18 as stated: when a sitemap index lists itself, or two indexes list each
\* other, _parse_sitemap never returns and the crawl never reaches the
\* page-fetch phase.
C18_CyclicIndexNeverFetchesPages ==
    CyclicIndex => pc \notin {"fetch", "done"}

\* C18: sitemap parsing has no visited-set and no depth bound of its own: when
\* a sitemap index lists itself, or two indexes list each other, the crawl gets
\* past sitemap parsing only after some sitemap was requested again and a
\* RecursionError was raised and swallowed; parsing ends without one only when
\* the references reachable from the first sitemap are acyclic.
C18_CyclicIndexEndsAtRecursionLimit ==
    (CyclicIndex /\ pc \notin {"sitemap", "parse_sitemap"}) =>
        /\ sm_overflowed
        /\ \E name \in SitemapNames : TimesFetched(name) > 1

\* a sitemap index that lists itself was parsed, and a page fetched after it
C18_Witness ==
    /\ CyclicIndex
    /\ sm_site[sm_entry].subs = {sm_entry}
    /\ sm_overflowed
    /\ pc = "done"
    /\ pages # <<>>


(***************************************************************************)
(* Validator: the blockquote after the H1, headings deeper than H2         *)
(***************************************************************************)
\* the issues of a ValidationResult with the given level and message
IssuesWith(result, level, message) ==
    {i \in 1..Len(result.issues) :
        result.issues[i].level = level /\ result.issues[i].message = message}

\* the first H1 line of the validated document, 0 when it has none
FirstH1(lines) ==
    IF \E i \in 1..Len(lines) : StartsWith(Strip(lines[i]), H1Mark)
    THEN CHOOSE i \in 1..Len(lines) :
            /\ StartsWith(Strip(lines[i]), H1Mark)
            /\ \A j \in 1..(i - 1) : ~StartsWith(Strip(lines[j]), H1Mark)
    ELSE 0

\* the next n non-blank lines after line h
NextNonBlank(lines, h, n) ==
    {i \in (h + 1)..Len(lines) :
        /\ Strip(lines[i]) # <<>>
        /\ Cardinality({j \in (h + 1)..i : Strip(lines[j]) # <<>>}) <= n}

\* a line '> <text>', the text possibly empty
IsBlockquoteLine(line) == LStrip(line) # <<>> /\ LStrip(line)[1] = ">"

BlockquoteText(line) == Strip(Tail(LStrip(line)))

\* C21: the missing-blockquote WARNING is emitted exactly when none of the next
\* 4 non-blank lines after the H1 is a blockquote line, and a blockquote with
\* empty text gets the empty-blockquote WARNING.
C21_BlockquoteWithinFourLines ==
    (doc_pc = "validated" /\ FirstH1(SplitLines(doc_content)) # 0) =>
        LET lines == SplitLines(doc_content)
            window == NextNonBlank(lines, FirstH1(lines), 4)
            quotes == {i \in window : IsBlockquoteLine(lines[i])}
        IN  /\ IssuesWith(validation, "warning",
                          "Should have a blockquote (>) after H1 with one-line description") # {}
               <=> quotes = {}
            /\ (\E i \in quotes : BlockquoteText(lines[i]) = <<>>) =>
                   IssuesWith(validation, "warning",
                              "Blockquote should have meaningful content") # {}

\* a heading deeper than H2: three or more '#' and a space
IsDeepHeading(line) ==
    LET stripped == Strip(line) IN
    \E k \in 3..(Len(stripped) - 1) :
        /\ \A j \in 1..k : stripped[j] = "#"
        /\ stripped[k + 1] = " "

\* C22: validate_llmstxt emits one WARNING for each line that is a heading
\* deeper than H2, wherever the line occurs, also before the first '## ' line.
C22_WarningPerDeepHeading ==
    doc_pc = "validated" =>
        LET lines == SplitLines(doc_content) IN
        {validation.issues[i].line :
            i \in IssuesWith(validation, "warning",
                             "Use H2 (##) for sections, not H3 or deeper")}
        = {i \in 1..Len(lines) : IsDeepHeading(lines[i])}


(***************************************************************************)
(* Generator: the closing section for AI systems                           *)
(***************************************************************************)
\* the section's heading, its opening line and the analysis' guidance
AiSectionOpening(a) ==
    <<"#", "#", " ", "For", " ", "AI", " ", "Systems", "\n">>
    \o <<"\n", "When", " ", "representing", " ", "this", " ", "organisation", ":", "\n">>
    \o BulletItems(a.ai_guidance)

\* the universal caution lines of the charity template
CautionLines ==
    <<"-", " ", "Always", " ", "verify", " ", "current", " ", "service", " ", "availability", "\n">>
    \o <<"-", " ", "Direct", " ", "urgent", " ", "enquiries", " ", "to", " ", "official", " ", "channels", "\n">>

\* where the closing section starts in the text, 0 when it is not there
AiSectionStart(text, a) ==
    LET opening == AiSectionOpening(a)
        starts == {k \in 1..(Len(text) - Len(opening) + 1) :
                      SubSeq(text, k, k + Len(opening) - 1) = opening}
    IN  IF starts = {} THEN 0 ELSE CHOOSE k \in starts : \A j \in starts : j <= k

\* what the text holds between the analysis' guidance and the caution lines
GoalLines(text, a) ==
    SubSeq(text, AiSectionStart(text, a) + Len(AiSectionOpening(a)),
           Len(text) - Len(CautionLines))

\* one list item on one line
IsOneItemLine(s) ==
    /\ Len(s) > 3
    /\ StartsWith(s, ItemMark)
    /\ {k \in 1..Len(s) : s[k] = "\n"} = {Len(s)}

\* C23: for every goal id of the template's goal table the closing section
\* holds the entries of analysis.ai_guidance, then exactly one goal-specific
\* line, then the caution lines; with no goal it holds no goal-specific line.
C23_OneGoalLine ==
    (doc_pc = "generated" /\ doc_template = "charity") =>
        LET a == gen_input.analysis IN
        /\ AiSectionStart(doc_content, a) # 0
        /\ SubSeq(doc_content, Len(doc_content) - Len(CautionLines) + 1,
                  Len(doc_content)) = CautionLines
        /\ get_goal_by_id(gen_input.goal) => IsOneItemLine(GoalLines(doc_content, a))
        /\ gen_input.goal = "" => GoalLines(doc_content, a) = <<>>

(***************************************************************************)
(* Assessor: the size of a charity, what is expected of that size, and the *)
(* scores of an assessment made with enrichment data                       *)
(***************************************************************************)
\* assessor.py:162-192   SIZE_EXPECTATIONS[category]
SIZE_EXPECTATIONS(category) ==
    CASE category = "small" ->
        [required |-> <<<<"About">>, <<"Services">>, <<"Contact">>>>,
         min_services |-> 1, projects_expected |-> FALSE,
         impact_metrics_expected |-> FALSE]
      [] category = "medium" ->
        [required |-> <<<<"About">>, <<"Services">>, <<"Get", " ", "Help">>,
                        <<"For", " ", "Funders">>>>,
         min_services |-> 2, projects_expected |-> TRUE,
         impact_metrics_expected |-> FALSE]
      [] category = "large" ->
        [required |-> <<<<"About">>, <<"Services">>, <<"Projects">>, <<"Impact">>,
                        <<"Get", " ", "Help">>, <<"For", " ", "Funders">>>>,
         min_services |-> 3, projects_expected |-> TRUE,
         impact_metrics_expected |-> TRUE]
      [] category = "major" ->
        [required |-> <<<<"About">>, <<"Services">>, <<"Projects">>, <<"Impact">>,
                        <<"Get", " ", "Help">>, <<"Get", " ", "Involved">>,
                        <<"For", " ", "Funders">>>>,
         min_services |-> 5, projects_expected |-> TRUE,
         impact_metrics_expected |-> TRUE]

\* three digits of f"{n:,}"
Pad3(g) ==
    IF g < 10 THEN "00" \o ToString(g)
    ELSE IF g < 100 THEN "0" \o ToString(g) ELSE ToString(g)

\* f"{n:,}": the digits of n in groups of three
RECURSIVE Thousands(_)
Thousands(n) ==
    IF n < 1000 THEN <<ToString(n)>>
    ELSE Thousands(n \div 1000) \o <<",", Pad3(n % 1000)>>

\* assessor.py:425-444.  latest_income is <<>> for None and <<n>> for the
\* integer n; income = charity_data.latest_income or 0
_categorize_size(charity_data) ==
    LET income == IF charity_data.latest_income = <<>> THEN 0
                  ELSE charity_data.latest_income[1]
        category == IF income < 100000 THEN "small"
                    ELSE IF income < 1000000 THEN "medium"
                    ELSE IF income < 10000000 THEN "large"
                    ELSE "major"
    IN  [category |-> category, income |-> income,
         expectations |-> SIZE_EXPECTATIONS(category)]

\* AssessmentFinding(category=SIZE_APPROPRIATE, ...)
SizeFinding(severity, message, section, suggestion) ==
    Finding("size_appropriate", severity, message, section, suggestion, 0)

\* assessor.py:446-497
_check_size_expectations(parsed, org_size) ==
    LET expectations == org_size.expectations
        Missing(section) ==
            IF _find_section(section, parsed).found THEN <<>>
            ELSE <<SizeFinding("major",
                     <<"Section", " ", "'">> \o section
                     \o <<"'", " ", "expected", " ", "for", " ", org_size.category, " ",
                          "charity", " ", "(", "£">> \o Thousands(org_size.income)
                     \o <<" ", "income", ")">>,
                     section,
                     <<"Add", " ", "'">> \o section
                     \o <<"'", " ", "section", " ", "-", " ", "organizations", " ", "of", " ",
                          "your", " ", "size", " ", "typically", " ", "include", " ", "this">>)>>
        services == _find_section(<<"Services">>, parsed)
        services_content == IF services.found THEN services.content ELSE <<>>
        split == SplitLines(services_content)
        service_count ==
            Cardinality({i \in 1..Len(split) : StartsWith(Strip(split[i]), <<"-">>)})
    IN  Concat([i \in 1..Len(expectations.required) |-> Missing(expectations.required[i])])
        \o (IF service_count < expectations.min_services
            THEN <<SizeFinding("minor",
                     <<"Expected", " ", "at", " ", "least", " ",
                       ToString(expectations.min_services), " ", "services", " ", "for", " ",
                       org_size.category, " ", "charity,", " ", "found", " ",
                       ToString(service_count)>>,
                     <<"Services">>,
                     <<"Add", " ", "more", " ", "service", " ", "descriptions">>)>>
            ELSE <<>>)
        \o (IF expectations.projects_expected /\ ~HasSection(parsed.sections, <<"Projects">>)
            THEN <<SizeFinding("major",
                     <<"Projects", " ", "section", " ", "expected", " ", "for", " ",
                       org_size.category, " ", "charity">>,
                     <<"Projects">>,
                     <<"Add", " ", "a", " ", "Projects", " ", "section">>)>>
            ELSE <<>>)
        \o (IF expectations.impact_metrics_expected /\ ~HasSection(parsed.sections, <<"Impact">>)
            THEN <<SizeFinding("major",
                     <<"Impact", " ", "section", " ", "expected", " ", "for", " ",
                       org_size.category, " ", "charity">>,
                     <<"Impact">>,
                     <<"Add", " ", "an", " ", "Impact", " ", "section">>)>>
            ELSE <<>>)

\* the size-appropriateness findings of a list of findings
SizeFindings(findings) == SelectSeq(findings, LAMBDA f : f.category = "size_appropriate")

\* assessor.py:798-805: the overall score in tenths, before and after the
\* bonus.  overall_score before the bonus is overall_num / overall_den tenths;
\* the bonus multiplies it by 1.1 and caps it at 100, then round(.., 1)
BonusOverall(section_assessments, findings, required_sections) ==
    LET total_required == Len(required_sections)
        n == Len(section_assessments)
        sections_present ==
            Cardinality({i \in 1..n :
                /\ section_assessments[i].present
                /\ \E k \in 1..total_required :
                      required_sections[k] = section_assessments[i].section_name})
        sum_completeness == SumSeq([i \in 1..n |-> section_assessments[i].completeness])
        t == IF total_required > 0 THEN total_required ELSE 1
        base_num == IF total_required > 0 THEN sections_present ELSE 0
        completeness_den == IF n > 0 THEN t * n ELSE t
        completeness_num ==
            IF n > 0 THEN 600 * base_num * n + 40 * sum_completeness * t
            ELSE 1000 * base_num
        quality == _calculate_scores(section_assessments, findings, required_sections).quality
        overall_num == completeness_num + quality * completeness_den
        overall_den == 2 * completeness_den
    IN  IF 11 * overall_num > 1000 * 10 * overall_den THEN 1000
        ELSE RoundHalfEven(11 * overall_num, 10 * overall_den)

\* _calculate_scores with the bonus given whenever an organisation size is
\* set, whatever the size findings
_calculate_scores_bonus_always(section_assessments, findings, required_sections, org_size) ==
    LET unsized == _calculate_scores(section_assessments, findings, required_sections)
    IN  IF org_size # NoResult
        THEN [unsized EXCEPT !.overall =
                 BonusOverall(section_assessments, findings, required_sections)]
        ELSE unsized

\* assessor.py:763-816, org_size given or NoResult for None
_calculate_scores_org_size(section_assessments, findings, required_sections, org_size) ==
    LET unsized == _calculate_scores(section_assessments, findings, required_sections)
    IN  IF org_size # NoResult /\ Len(SizeFindings(findings)) = 0
        THEN [unsized EXCEPT !.overall =
                 BonusOverall(section_assessments, findings, required_sections)]
        ELSE unsized

\* assessor.py:285-291 and 307-324: step 5 and the AssessmentResult, charity_data
\* being the enrichment_data argument or NoResult for None
SizedAssessment(steps_1_to_4, parsed, template_type, charity_data) ==
    LET sized == template_type = "charity" /\ charity_data # NoResult
        org_size == IF sized THEN _categorize_size(charity_data) ELSE NoResult
        findings == steps_1_to_4.findings
                    \o (IF sized THEN _check_size_expectations(parsed, org_size) ELSE <<>>)
        scores == _calculate_scores_org_size(steps_1_to_4.section_assessments, findings,
                      template_def(template_type).required_sections, org_size)
    IN  [template_type |-> template_type,
         overall_score |-> scores.overall,
         completeness_score |-> scores.completeness,
         quality_score |-> scores.quality,
         section_assessments |-> steps_1_to_4.section_assessments,
         findings |-> findings,
         org_size |-> org_size,
         scores |-> scores]

\* assessor.py:232-324   assess(llmstxt_content, enrichment_data=charity_data)
\* with no crawl result and no AI client: steps 1 to 4 as without enrichment
\* data, computed once and bound as a value, then steps 5 and 8
assess_with_enrichment(llmstxt_content, template_type, charity_data) ==
    CHOOSE result \in
        {SizedAssessment(steps_1_to_4, parsed, template_type, charity_data) :
            steps_1_to_4 \in {assess(llmstxt_content, template_type)},
            parsed \in {_parse_llmstxt(llmstxt_content)}} : TRUE

(***************************************************************************)
(* Specification: assessing a document with enrichment data                *)
(***************************************************************************)
\* the most lines of such a document after its title and mission
MaxSizeDocLines == 4

\* the lines the rest of such a document is made of
SizeLinePool ==
    { <<"#", "#", " ", "About">>,
      <<"#", "#", " ", "Services">>,
      <<"#", "#", " ", "Contact">>,
      <<"-", " ", "advice">> }

\* a section with n list items
ListSection(name, n) ==
    <<H2Mark \o name>> \o [i \in 1..n |-> <<"-", " ", "advice">>]

\* a document with the required sections of the charity template, four list
\* items in each, a Projects section with two and an empty Contact section
FullDocument ==
    LET required == template_def("charity").required_sections
    IN  JoinLines(<<AssessHeader>>
                  \o Concat([i \in 1..Len(required) |-> ListSection(required[i], 4)])
                  \o ListSection(<<"Projects">>, 2)
                  \o ListSection(<<"Contact">>, 0))

\* the incomes on both sides of each threshold of _categorize_size
Incomes == {0, 99999, 100000, 999999, 1000000, 9999999, 10000000}

\* the CharityData records: without an income figure, or with one
CharityRecords ==
    {[latest_income |-> <<>>]} \cup {[latest_income |-> <<n>>] : n \in Incomes}

InitAssessSize ==
    /\ CrawlIdle
    /\ ClassifyIdle
    /\ JobIdle
    /\ RecIdle
    /\ ApiIdle
    /\ doc_pc = "document"
    /\ doc_template \in {"charity", "funder"}
    /\ \/ doc_content = FullDocument
       \/ \E ls \in SeqsUpTo(SizeLinePool, MaxSizeDocLines) :
             doc_content = JoinLines(<<AssessHeader>> \o ls)
    /\ validation = NoResult
    /\ gen_input = NoResult
    /\ assessment = NoResult
    /\ before_edit = NoResult
    /\ removed = <<>>
    /\ enrichment_data \in {NoResult} \cup CharityRecords

\* assessor.py:232-324
\* result = await LLMSTxtAssessor(template).assess(content, enrichment_data=charity_data)
AssessWithEnrichment ==
    /\ doc_pc = "document"
    /\ assessment' = assess_with_enrichment(doc_content, doc_template, enrichment_data)
    /\ doc_pc' = "assessed_sized"
    /\ UNCHANGED <<doc_template, doc_content, validation, gen_input, before_edit, removed>>
    /\ UNCHANGED <<crawlVars, extVars>>

NextAssessSize == AssessWithEnrichment

SpecAssessSize == InitAssessSize /\ [][NextAssessSize]_vars

\* an assessment with enrichment data has been made
Sized == doc_pc = "assessed_sized"

\* the severity weights of the quality and completeness findings, summed
QualityPenalty(findings) ==
    SumSeq([i \in 1..Len(findings) |->
              IF findings[i].category \notin {"quality", "completeness"} THEN 0
              ELSE IF findings[i].severity = "critical" THEN 15
              ELSE IF findings[i].severity = "major" THEN 10
              ELSE IF findings[i].severity = "minor" THEN 5 ELSE 0])

\* organisation size was evaluated and produced no size_appropriate finding
BonusDue(result) ==
    result.org_size # NoResult /\ SizeFindings(result.findings) = <<>>

\* quality_score is 100 minus the penalty, clamped to [0,100] (in tenths)
QualityByFormula(result) ==
    LET penalty == QualityPenalty(result.findings)
    IN  result.quality_score = 10 * (IF penalty > 100 THEN 0 ELSE 100 - penalty)

\* the three scores lie in [0,100] (in tenths)
ScoresInRange(result) ==
    /\ result.completeness_score \in 0..1000
    /\ result.quality_score \in 0..1000
    /\ result.overall_score \in 0..1000

\* twenty times the formula's overall score, from the scores of the result
TwentyTimesFormula(result) ==
    LET sum == result.completeness_score + result.quality_score
    IN  IF BonusDue(result)
        THEN (IF 11 * sum > 20000 THEN 20000 ELSE 11 * sum)
        ELSE 10 * sum

\* |a - b|
Distance(a, b) == IF a > b THEN a - b ELSE b - a

\* C24 as stated: quality_score is 100 minus the severity weights of the
\* quality and completeness findings, clamped to [0,100]; overall_score is
\* exactly 0.5 x completeness_score + 0.5 x quality_score, times 1.1 capped at
\* 100 exactly when a size was evaluated without size findings; the three
\* scores lie in [0,100].
C24_OverallIsExactlyTheFormula ==
    Sized =>
        /\ QualityByFormula(assessment)
        /\ 20 * assessment.overall_score = TwentyTimesFormula(assessment)
        /\ ScoresInRange(assessment)

\* C24 amended: the same, except that overall_score is computed from the
\* scores before they are rounded to one decimal and is then rounded itself,
\* so that it is within 0.1 of the formula applied to the scores of the
\* result.
C24_OverallIsTheFormulaRounded ==
    Sized =>
        /\ QualityByFormula(assessment)
        /\ Distance(20 * assessment.overall_score, TwentyTimesFormula(assessment)) <= 20
        /\ ScoresInRange(assessment)

\* a size was evaluated without size findings, the bonus was given below the
\* cap, and some quality or completeness finding lowered the quality score
C24_Witness ==
    /\ Sized
    /\ BonusDue(assessment)
    /\ assessment.overall_score < 1000
    /\ assessment.quality_score < 1000
    /\ 20 * assessment.overall_score # TwentyTimesFormula(assessment)

\* C25: the size check runs, and org_size is set, only for the charity
\* template and only when the enrichment record supplies an income figure;
\* then income below 100,000 is small, below 1,000,000 medium, below
\* 10,000,000 large, otherwise major; a record without income gives no
\* org_size and no size_appropriate finding.
C25_SizeOnlyWithIncome ==
    Sized =>
        LET evaluated == \/ assessment.org_size # NoResult
                         \/ SizeFindings(assessment.findings) # <<>>
            supplied == /\ enrichment_data # NoResult
                        /\ enrichment_data.latest_income # <<>>
        IN  /\ evaluated => (doc_template = "charity" /\ supplied)
            /\ assessment.org_size # NoResult =>
                  LET income == enrichment_data.latest_income[1]
                  IN  assessment.org_size.category =
                          IF income < 100000 THEN "small"
                          ELSE IF income < 1000000 THEN "medium"
                          ELSE IF income < 10000000 THEN "large" ELSE "major"
            /\ ~supplied => ~evaluated

(***************************************************************************)
(* Assessor: what the parser makes of a document                           *)
(***************************************************************************)
\* the text of the first line that starts with the mark, None without one
FirstMarked(lines, mark) ==
    IF \E i \in 1..Len(lines) : StartsWith(lines[i], mark)
    THEN LET first == CHOOSE i \in 1..Len(lines) :
                         /\ StartsWith(lines[i], mark)
                         /\ \A j \in 1..(i - 1) : ~StartsWith(lines[j], mark)
         IN  Strip(From(lines[first], Len(mark)))
    ELSE None

\* the lines that start with '## '
H2Lines(lines) == {i \in 1..Len(lines) : StartsWith(lines[i], H2Mark)}

\* the name on the '## ' line i
H2Name(lines, i) == Strip(From(lines[i], 3))

\* all lines after the '## ' line i up to the next '## ' line or the end
BodyAfter(lines, i) ==
    LET later == {j \in H2Lines(lines) : j > i}
        end == IF later = {} THEN Len(lines)
               ELSE (CHOOSE j \in later : \A k \in later : j <= k) - 1
    IN  JoinLines(SubSeq(lines, i + 1, end))

\* the first '## ' line with the name
FirstH2(lines, name) ==
    CHOOSE i \in H2Lines(lines) :
        /\ H2Name(lines, i) = name
        /\ \A j \in H2Lines(lines) : H2Name(lines, j) = name => i <= j

\* C26: the parser yields no section for a text without a '## ' line, the
\* first '# ' line as title and the first '> ' line as mission, and for each
\* '## name' line a section whose body is all following lines up to the next
\* '## ' line or the end, lines starting with '# ' or '> ' included, the
\* sections being in document order.  Of two '## ' lines with one name the
\* later one is the section.
C26_ParserKeepsEveryLine ==
    doc_pc \in {"assessed", "reassessed"} =>
        LET lines == SplitLines(doc_content)
            parsed == _parse_llmstxt(doc_content)
            sections == parsed.sections
        IN  /\ H2Lines(lines) = {} => sections = <<>>
            /\ parsed.title = FirstMarked(lines, H1Mark)
            /\ parsed.mission = FirstMarked(lines, QuoteMark)
            /\ \A i \in H2Lines(lines) :
                  /\ HasSection(sections, H2Name(lines, i))
                  /\ (\A j \in H2Lines(lines) :
                         H2Name(lines, j) = H2Name(lines, i) => j <= i)
                     => SectionContent(sections, H2Name(lines, i)) = BodyAfter(lines, i)
            /\ \A a, b \in 1..Len(sections) :
                  /\ \E i \in H2Lines(lines) : H2Name(lines, i) = sections[a].name
                  /\ a < b => FirstH2(lines, sections[a].name) < FirstH2(lines, sections[b].name)

(***************************************************************************)
(* Api: paid jobs.  POST /generate/paid and the payment_intent.succeeded   *)
(* webhook each run in a database session of their own; what a session     *)
(* wrote is in the table for the others from its commit on.  Each await of *)
(* a handler is a point where other handlers run.                          *)
(***************************************************************************)
\* the number of requests and webhook deliveries
NumPaidCalls == 2

NoUser == ""

\* services/payment.py:33-59 and payment.py:43-51: the payment intents at
\* Stripe.  succeeded: status, amount and currency are the expected ones;
\* has_url: the metadata holds url and template.
PaymentIntents ==
    { [id |-> "pi_email", succeeded |-> TRUE, customer_email |-> "a@example.org",
       has_url |-> TRUE],
      [id |-> "pi_plain", succeeded |-> TRUE, customer_email |-> NoUser, has_url |-> TRUE],
      [id |-> "pi_bare", succeeded |-> TRUE, customer_email |-> NoUser, has_url |-> FALSE],
      [id |-> "pi_unpaid", succeeded |-> FALSE, customer_email |-> NoUser,
       has_url |-> TRUE] }

\* the payment_intent_id of a job of the free tier: None
NoPaymentIntent == ""

\* stripe.PaymentIntent.retrieve(payment_intent_id)
Intent(payment_intent_id) == CHOOSE p \in PaymentIntents : p.id = payment_intent_id

\* models.py:24-65   a row of generation_jobs as the routes make it
GenerationJob(id, user_id, tier, payment_intent_id) ==
    [id |-> id, user_id |-> user_id, tier |-> tier, status |-> "pending",
     payment_intent_id |-> payment_intent_id,
     llmstxt_content |-> NoResult, assessment_json |-> NoResult,
     dismissed_findings |-> {}, error_message |-> NoResult]

\* select(GenerationJob).where(GenerationJob.payment_intent_id == ...): the
\* positions of the matching rows
JobsOfPayment(payment_intent_id) ==
    {i \in 1..Len(generation_jobs) :
        generation_jobs[i].payment_intent_id = payment_intent_id}

\* id=uuid.uuid4(): an id no row has
FreshJobId == Len(generation_jobs) + 1

\* a call that has not started
PaidCall(kind, payment_intent_id, user) ==
    [kind |-> kind, payment_intent_id |-> payment_intent_id, user |-> user,
     new_user |-> NoUser, pc |-> "start", job_id |-> 0, status_code |-> 0]

\* the call ends with the HTTP status and the job it answers with, 0 for none
Finish(c, status_code, job_id) ==
    /\ calls' = [calls EXCEPT ![c].pc = "done", ![c].status_code = status_code,
                              ![c].job_id = job_id]
    /\ api_log' = Append(api_log, [call |-> c, status_code |-> status_code,
                                   job_id |-> job_id])

\* routes/generate.py:93-103   the duplicate check of generate_paid.
\* scalar_one_or_none raises MultipleResultsFound on more than one row.
PaidCheckExisting(c) ==
    /\ calls[c].kind = "generate_paid"
    /\ calls[c].pc = "start"
    /\ LET existing == JobsOfPayment(calls[c].payment_intent_id) IN
       IF Cardinality(existing) > 1 THEN Finish(c, 500, 0)
       ELSE IF existing # {}
       THEN Finish(c, 202, generation_jobs[CHOOSE i \in existing : TRUE].id)
       ELSE /\ calls' = [calls EXCEPT ![c].pc = "verify"]
            /\ UNCHANGED api_log
    /\ UNCHANGED <<generation_jobs, celery_queue, users, magic_link_tokens>>
    /\ UNCHANGED <<crawlVars, docVars, classifyVars, jobVars, recVars, sizeVars>>

\* routes/generate.py:105-126   verify_payment_intent, then the user of the
\* payment's customer_email is looked up, and added when there is none
PaidVerify(c) ==
    /\ calls[c].kind = "generate_paid"
    /\ calls[c].pc = "verify"
    /\ LET payment_info == Intent(calls[c].payment_intent_id)
           customer_email == payment_info.customer_email
       IN  IF ~payment_info.succeeded THEN Finish(c, 400, 0)
           ELSE /\ calls' =
                     [calls EXCEPT
                        ![c].pc = "commit",
                        ![c].user = IF calls[c].user = NoUser /\ customer_email \in users
                                    THEN customer_email ELSE @,
                        ![c].new_user = IF /\ calls[c].user = NoUser
                                           /\ customer_email # NoUser
                                           /\ customer_email \notin users
                                        THEN customer_email ELSE NoUser]
                /\ UNCHANGED api_log
    /\ UNCHANGED <<generation_jobs, celery_queue, users, magic_link_tokens>>
    /\ UNCHANGED <<crawlVars, docVars, classifyVars, jobVars, recVars, sizeVars>>

\* routes/generate.py:128-145   the job is added and committed.  users.email
\* is unique (models.py:19): the commit of a user another session has
\* committed in the meantime fails and the session is rolled back.
PaidCommit(c) ==
    /\ calls[c].kind = "generate_paid"
    /\ calls[c].pc = "commit"
    /\ IF calls[c].new_user # NoUser /\ calls[c].new_user \in users
       THEN /\ Finish(c, 500, 0)
            /\ UNCHANGED <<generation_jobs, users>>
       ELSE /\ generation_jobs' =
                 Append(generation_jobs,
                        GenerationJob(FreshJobId,
                                      IF calls[c].new_user # NoUser
                                      THEN calls[c].new_user ELSE calls[c].user,
                                      "paid", calls[c].payment_intent_id))
            /\ users' = users \cup (IF calls[c].new_user # NoUser
                                    THEN {calls[c].new_user} ELSE {})
            /\ calls' = [calls EXCEPT ![c].pc = "queue", ![c].job_id = FreshJobId]
            /\ UNCHANGED api_log
    /\ UNCHANGED <<celery_queue, magic_link_tokens>>
    /\ UNCHANGED <<crawlVars, docVars, classifyVars, jobVars, recVars, sizeVars>>

\* routes/generate.py:147-150 and payment.py:189-191
\* generate_paid_task.delay(str(job.id), ...), and the handler returns
QueuePaidTask(c) ==
    /\ calls[c].pc = "queue"
    /\ celery_queue' = Append(celery_queue,
                              [task |-> "generate_paid_task", job_id |-> calls[c].job_id])
    /\ Finish(c, IF calls[c].kind = "generate_paid" THEN 202 ELSE HTTP_OK, calls[c].job_id)
    /\ UNCHANGED <<generation_jobs, users, magic_link_tokens>>
    /\ UNCHANGED <<crawlVars, docVars, classifyVars, jobVars, recVars, sizeVars>>

\* payment.py:128-170   the webhook's check for an existing job, which it
\* links to the user of the payment's customer_email; without one it looks
\* at the metadata and the user
WebhookCheckExisting(c) ==
    /\ calls[c].kind = "webhook"
    /\ calls[c].pc = "start"
    /\ LET existing == JobsOfPayment(calls[c].payment_intent_id)
           metadata == Intent(calls[c].payment_intent_id)
           customer_email == metadata.customer_email
       IN  IF Cardinality(existing) > 1
           THEN /\ Finish(c, 500, 0)
                /\ UNCHANGED generation_jobs
           ELSE IF existing # {}
           THEN LET i == CHOOSE i \in existing : TRUE IN
                /\ generation_jobs' =
                      IF generation_jobs[i].user_id = NoUser /\ customer_email \in users
                      THEN [generation_jobs EXCEPT ![i].user_id = customer_email]
                      ELSE generation_jobs
                /\ Finish(c, HTTP_OK, generation_jobs[i].id)
           ELSE IF ~metadata.has_url
           THEN /\ Finish(c, HTTP_OK, 0)
                /\ UNCHANGED generation_jobs
           ELSE /\ calls' = [calls EXCEPT
                               ![c].pc = "commit",
                               ![c].user = IF customer_email \in users
                                           THEN customer_email ELSE NoUser]
                /\ UNCHANGED <<generation_jobs, api_log>>
    /\ UNCHANGED <<celery_queue, users, magic_link_tokens>>
    /\ UNCHANGED <<crawlVars, docVars, classifyVars, jobVars, recVars, sizeVars>>

\* payment.py:172-187   the webhook adds and commits the job
WebhookCommit(c) ==
    /\ calls[c].kind = "webhook"
    /\ calls[c].pc = "commit"
    /\ generation_jobs' =
          Append(generation_jobs,
                 GenerationJob(FreshJobId, calls[c].user, "paid",
                               calls[c].payment_intent_id))
    /\ calls' = [calls EXCEPT ![c].pc = "queue", ![c].job_id = FreshJobId]
    /\ UNCHANGED <<celery_queue, users, magic_link_tokens, api_log>>
    /\ UNCHANGED <<crawlVars, docVars, classifyVars, jobVars, recVars, sizeVars>>

\* the requests and deliveries that can arrive: a webhook is delivered for
\* a payment that succeeded, a request is authenticated as a user or not
PaidCalls ==
    {PaidCall("generate_paid", p.id, u) :
        p \in PaymentIntents, u \in {NoUser, "b@example.org"}}
    \cup {PaidCall("webhook", p.id, NoUser) : p \in {q \in PaymentIntents : q.succeeded}}

InitPaid ==
    /\ CrawlIdle
    /\ DocIdle
    /\ ClassifyIdle
    /\ JobIdle
    /\ RecIdle
    /\ SizeIdle
    /\ generation_jobs = <<>>
    /\ celery_queue = <<>>
    /\ users \in {{"b@example.org"}, {"a@example.org", "b@example.org"}}
    /\ magic_link_tokens = <<>>
    /\ calls \in [1..NumPaidCalls -> PaidCalls]
    /\ api_log = <<>>

NextPaid ==
    \E c \in 1..NumPaidCalls :
        \/ PaidCheckExisting(c)
        \/ PaidVerify(c)
        \/ PaidCommit(c)
        \/ QueuePaidTask(c)
        \/ WebhookCheckExisting(c)
        \/ WebhookCommit(c)

SpecPaid == InitPaid /\ [][NextPaid]_vars

\* the queued tasks for the jobs of a payment
TasksOfPayment(payment_intent_id) ==
    {k \in 1..Len(celery_queue) :
        \E i \in JobsOfPayment(payment_intent_id) :
            generation_jobs[i].id = celery_queue[k].job_id}

NumDismissCalls == 2

\* the assessments the stored jobs were completed with
StoredAssessments ==
    { AssessmentJson([completeness_score |-> c,
                      quality_score |-> _calculate_scores(<<>>, fs, <<>>).quality,
                      overall_score |->
                          RoundHalfEven(c + _calculate_scores(<<>>, fs, <<>>).quality, 2),
                      findings |-> fs]) :
        c \in {500},
        fs \in { <<[category |-> "quality", severity |-> "critical"],
                   [category |-> "quality", severity |-> "minor"]>>,
                 <<[category |-> "completeness", severity |-> "major"]>> } }

\* a call of POST /jobs/{job_id}/dismiss-findings that has not started
DismissCall(job_id, dismissed_indices) ==
    [kind |-> "dismiss_findings", job_id |-> job_id,
     dismissed_indices |-> dismissed_indices,
     new_dismissed |-> {}, assessment |-> NoResult, pc |-> "start", status_code |-> 0]

\* select(GenerationJob).where(GenerationJob.id == job_uuid): the positions
\* of the matching rows
JobsWithId(job_id) == {i \in 1..Len(generation_jobs) : generation_jobs[i].id = job_id}

\* the request ends with the HTTP status
Answer(c, status_code) ==
    /\ calls' = [calls EXCEPT ![c].pc = "done", ![c].status_code = status_code]
    /\ api_log' = Append(api_log, [call |-> c, status_code |-> status_code])

\* routes/generate.py:256-326   the job is read, the indices are checked
\* and the new list and scores are computed on the session's copy of the row
DismissRead(c) ==
    /\ calls[c].kind = "dismiss_findings"
    /\ calls[c].pc = "start"
    /\ IF JobsWithId(calls[c].job_id) = {} THEN Answer(c, HTTP_NOT_FOUND)
       ELSE LET row == generation_jobs[CHOOSE i \in JobsWithId(calls[c].job_id) : TRUE] IN
            IF row.assessment_json = NoResult THEN Answer(c, 400)
            ELSE IF \E i \in calls[c].dismissed_indices :
                       i < 0 \/ i >= Len(row.assessment_json.findings)
            THEN Answer(c, 400)
            ELSE LET new_dismissed == row.dismissed_findings \cup calls[c].dismissed_indices
                 IN  /\ calls' = [calls EXCEPT
                                    ![c].pc = "commit",
                                    ![c].new_dismissed = new_dismissed,
                                    ![c].assessment =
                                        recalculate(row.assessment_json, new_dismissed)]
                     /\ UNCHANGED api_log
    /\ UNCHANGED <<generation_jobs, celery_queue, users, magic_link_tokens>>
    /\ UNCHANGED <<crawlVars, docVars, classifyVars, jobVars, recVars, sizeVars>>

\* routes/generate.py:328-337   await db.commit(): the session's values of
\* dismissed_findings and assessment_json are written to the row
DismissCommit(c) ==
    /\ calls[c].kind = "dismiss_findings"
    /\ calls[c].pc = "commit"
    /\ generation_jobs' =
          [i \in 1..Len(generation_jobs) |->
              IF generation_jobs[i].id = calls[c].job_id
              THEN [generation_jobs[i] EXCEPT
                      !.dismissed_findings = calls[c].new_dismissed,
                      !.assessment_json = calls[c].assessment]
              ELSE generation_jobs[i]]
    /\ Answer(c, HTTP_OK)
    /\ UNCHANGED <<celery_queue, users, magic_link_tokens>>
    /\ UNCHANGED <<crawlVars, docVars, classifyVars, jobVars, recVars, sizeVars>>

\* a completed paid job with its assessment, and a completed free job, which
\* has none
InitDismiss ==
    /\ CrawlIdle
    /\ DocIdle
    /\ ClassifyIdle
    /\ JobIdle
    /\ RecIdle
    /\ SizeIdle
    /\ \E stored \in StoredAssessments :
          generation_jobs =
              << [GenerationJob(1, NoUser, "paid", "pi_plain") EXCEPT
                    !.status = "completed", !.llmstxt_content = AssessHeader,
                    !.assessment_json = stored],
                 [GenerationJob(2, NoUser, "free", NoPaymentIntent) EXCEPT
                    !.status = "completed", !.llmstxt_content = AssessHeader] >>
    /\ celery_queue = <<>>
    /\ users = {}
    /\ magic_link_tokens = <<>>
    /\ calls \in [1..NumDismissCalls ->
                    {DismissCall(j, d) : j \in 1..3, d \in SUBSET (0..MaxFindings)}]
    /\ api_log = <<>>

NextDismiss ==
    \E c \in 1..NumDismissCalls :
        \/ DismissRead(c)
        \/ DismissCommit(c)

SpecDismiss == InitDismiss /\ [][NextDismiss]_vars

\* the indices of the accepted requests on the job
AcceptedIndices(job_id) ==
    UNION {calls[c].dismissed_indices :
              c \in {k \in 1..Len(calls) :
                        calls[k].job_id = job_id /\ calls[k].status_code = HTTP_OK}}

NumAuthCalls == 3

\* the tokens a verify request may carry
MaxTokens == 3

\* request.email.lower().strip()
NormalizeEmail(email) ==
    CASE email = "A@Example.org " -> "a@example.org"
      [] OTHER -> email

\* a row of magic_link_tokens; token is the value secrets.token_urlsafe gave,
\* expired says that expires_at is in the past, deleted that the row is gone
MagicLinkToken(email, token) ==
    [email |-> email, token |-> token, used |-> FALSE, expired |-> FALSE, deleted |-> FALSE]

\* a request to /auth/magic-link or /auth/verify that has not started
AuthCall(kind, email, token) ==
    [kind |-> kind, email |-> email, token |-> token, pc |-> "start", status_code |-> 0,
     row |-> 0, deleted |-> {}, user_found |-> FALSE]

\* the rows a request has written and not yet committed, which the database
\* keeps locked until the request's transaction ends
LockedBy(c) ==
    IF calls[c].pc # "commit" THEN {}
    ELSE IF calls[c].kind = "verify" THEN {calls[c].row}
    ELSE calls[c].deleted

LockedByOthers(c) == UNION {LockedBy(d) : d \in (1..Len(calls)) \ {c}}

\* the committed rows with MagicLinkToken.email == email and used == False
UnusedTokensOf(email) ==
    {t \in 1..Len(magic_link_tokens) :
        /\ ~magic_link_tokens[t].deleted
        /\ magic_link_tokens[t].email = email
        /\ ~magic_link_tokens[t].used}

\* routes/auth.py:104-110   DELETE of the unused tokens of the email, which
\* waits for the rows another transaction has written
SendDelete(c) ==
    /\ calls[c].kind = "send_magic_link"
    /\ calls[c].pc = "start"
    /\ LET email == NormalizeEmail(calls[c].email) IN
       /\ UnusedTokensOf(email) \cap LockedByOthers(c) = {}
       /\ calls' = [calls EXCEPT ![c].pc = "commit", ![c].email = email,
                                 ![c].deleted = UnusedTokensOf(email)]
    /\ UNCHANGED <<generation_jobs, celery_queue, users, magic_link_tokens, api_log>>
    /\ UNCHANGED <<crawlVars, docVars, classifyVars, jobVars, recVars, sizeVars>>

\* routes/auth.py:112-119   the new token is added and the transaction
\* committed
SendCommit(c) ==
    /\ calls[c].kind = "send_magic_link"
    /\ calls[c].pc = "commit"
    /\ magic_link_tokens' =
          Append([t \in 1..Len(magic_link_tokens) |->
                     IF t \in calls[c].deleted
                     THEN [magic_link_tokens[t] EXCEPT !.deleted = TRUE]
                     ELSE magic_link_tokens[t]],
                 MagicLinkToken(calls[c].email, Len(magic_link_tokens) + 1))
    /\ calls' = [calls EXCEPT ![c].pc = "email", ![c].token = Len(magic_link_tokens) + 1]
    /\ UNCHANGED <<generation_jobs, celery_queue, users, api_log>>
    /\ UNCHANGED <<crawlVars, docVars, classifyVars, jobVars, recVars, sizeVars>>

\* routes/auth.py:121-157   resend.Emails.send delivers the link or raises
SendEmail(c) ==
    /\ calls[c].kind = "send_magic_link"
    /\ calls[c].pc = "email"
    /\ \E status_code \in {HTTP_OK, 500} : Answer(c, status_code)
    /\ UNCHANGED <<generation_jobs, celery_queue, users, magic_link_tokens>>
    /\ UNCHANGED <<crawlVars, docVars, classifyVars, jobVars, recVars, sizeVars>>

\* routes/auth.py:171-185   the token is looked up among the unused ones and
\* its expiry checked
VerifyRead(c) ==
    /\ calls[c].kind = "verify"
    /\ calls[c].pc = "start"
    /\ LET found == {t \in 1..Len(magic_link_tokens) :
                        /\ ~magic_link_tokens[t].deleted
                        /\ magic_link_tokens[t].token = calls[c].token
                        /\ ~magic_link_tokens[t].used}
       IN  IF found = {} THEN Answer(c, 400)
           ELSE IF magic_link_tokens[CHOOSE t \in found : TRUE].expired THEN Answer(c, 400)
           ELSE /\ calls' = [calls EXCEPT ![c].pc = "flush",
                                          ![c].row = CHOOSE t \in found : TRUE,
                                          ![c].email =
                                              magic_link_tokens[CHOOSE t \in found : TRUE].email]
                /\ UNCHANGED api_log
    /\ UNCHANGED <<generation_jobs, celery_queue, users, magic_link_tokens>>
    /\ UNCHANGED <<crawlVars, docVars, classifyVars, jobVars, recVars, sizeVars>>

\* routes/auth.py:187-194   magic_token.used = True is flushed by the query
\* for the user: the UPDATE waits for the row, fails when the row is gone,
\* and the user is looked up
VerifyFlush(c) ==
    /\ calls[c].kind = "verify"
    /\ calls[c].pc = "flush"
    /\ calls[c].row \notin LockedByOthers(c)
    /\ IF magic_link_tokens[calls[c].row].deleted THEN Answer(c, 500)
       ELSE /\ calls' = [calls EXCEPT ![c].pc = "commit",
                                      ![c].user_found = (calls[c].email \in users)]
            /\ UNCHANGED api_log
    /\ UNCHANGED <<generation_jobs, celery_queue, users, magic_link_tokens>>
    /\ UNCHANGED <<crawlVars, docVars, classifyVars, jobVars, recVars, sizeVars>>

\* routes/auth.py:196-223   the user is added if none was found and the
\* transaction committed; users.email is unique
VerifyCommit(c) ==
    /\ calls[c].kind = "verify"
    /\ calls[c].pc = "commit"
    /\ IF ~calls[c].user_found /\ calls[c].email \in users
       THEN /\ Answer(c, 500)
            /\ UNCHANGED <<users, magic_link_tokens>>
       ELSE /\ magic_link_tokens' = [magic_link_tokens EXCEPT ![calls[c].row].used = TRUE]
            /\ users' = users \cup {calls[c].email}
            /\ Answer(c, HTTP_OK)
    /\ UNCHANGED <<generation_jobs, celery_queue>>
    /\ UNCHANGED <<crawlVars, docVars, classifyVars, jobVars, recVars, sizeVars>>

\* routes/auth.py:184   time passes beyond the expires_at of a token
TokenExpires(t) ==
    /\ ~magic_link_tokens[t].deleted
    /\ ~magic_link_tokens[t].expired
    /\ magic_link_tokens' = [magic_link_tokens EXCEPT ![t].expired = TRUE]
    /\ UNCHANGED <<generation_jobs, celery_queue, users, calls, api_log>>
    /\ UNCHANGED <<crawlVars, docVars, classifyVars, jobVars, recVars, sizeVars>>

AuthCalls ==
    {AuthCall("send_magic_link", email, 0) : email \in {"a@example.org", "A@Example.org "}}
        \cup {AuthCall("verify", "", token) : token \in 1..MaxTokens}

\* one magic link has been sent to a@example.org, who may have logged in before
InitAuth ==
    /\ CrawlIdle
    /\ DocIdle
    /\ ClassifyIdle
    /\ JobIdle
    /\ RecIdle
    /\ SizeIdle
    /\ generation_jobs = <<>>
    /\ celery_queue = <<>>
    /\ users \in {{}, {"a@example.org"}}
    /\ magic_link_tokens = <<MagicLinkToken("a@example.org", 1)>>
    /\ calls \in [1..NumAuthCalls -> AuthCalls]
    /\ api_log = <<>>

NextAuth ==
    \/ \E c \in 1..NumAuthCalls :
          \/ SendDelete(c)
          \/ SendCommit(c)
          \/ SendEmail(c)
          \/ VerifyRead(c)
          \/ VerifyFlush(c)
          \/ VerifyCommit(c)
    \/ \E t \in 1..Len(magic_link_tokens) : TokenExpires(t)

SpecAuth == InitAuth /\ [][NextAuth]_vars

\* the verify requests with the token that were answered with a login
LoginsWith(token) ==
    {c \in 1..Len(calls) :
        calls[c].kind = "verify" /\ calls[c].token = token /\ calls[c].status_code = HTTP_OK}

\* C29: a magic-link token logs a user in at most once, whether the verify
\* requests come one after the other or together; and when every request is
\* answered, an email has at most one unused token left, every earlier one
\* having been made unusable by the request for a new link.
C29_TokenLogsInOnce ==
    /\ \A token \in 1..MaxTokens : Cardinality(LoginsWith(token)) <= 1
    /\ (\A c \in 1..Len(calls) : calls[c].pc = "done") =>
          Cardinality(UnusedTokensOf("a@example.org")) <= 1

(***************************************************************************)
(* Api: a generation job from the request to the end of its Celery task    *)
(***************************************************************************)
\* the number of POST /generate/free and POST /generate/paid requests
NumTaskCalls == 2

\* a POST /generate/free request that has not started
FreeCall ==
    [kind |-> "generate_free", pc |-> "start", job_id |-> 0, status_code |-> 0]

\* routes/generate.py:56-71   the job is added with status pending and
\* committed
FreeCommit(c) ==
    /\ calls[c].kind = "generate_free"
    /\ calls[c].pc = "start"
    /\ generation_jobs' =
          Append(generation_jobs, GenerationJob(FreshJobId, NoUser, "free", NoPaymentIntent))
    /\ calls' = [calls EXCEPT ![c].pc = "queue_free", ![c].job_id = FreshJobId]
    /\ UNCHANGED <<celery_queue, users, magic_link_tokens, api_log>>
    /\ UNCHANGED <<crawlVars, docVars, classifyVars, jobVars, recVars, sizeVars>>

\* routes/generate.py:73-75   generate_free_task.delay(str(job.id), ...), and
\* the handler returns
QueueFreeTask(c) ==
    /\ calls[c].pc = "queue_free"
    /\ celery_queue' = Append(celery_queue,
                              [task |-> "generate_free_task", job_id |-> calls[c].job_id])
    /\ Finish(c, 202, calls[c].job_id)
    /\ UNCHANGED <<generation_jobs, users, magic_link_tokens>>
    /\ UNCHANGED <<crawlVars, docVars, classifyVars, jobVars, recVars, sizeVars>>

\* routes/generate.py:73 and 148   .delay() raises: the broker cannot be
\* reached, or the arguments do not fit the task's signature.  The job was
\* committed before, and the request ends with an error.
DelayRaises(c) ==
    /\ calls[c].pc \in {"queue", "queue_free"}
    /\ Finish(c, 500, calls[c].job_id)
    /\ UNCHANGED <<generation_jobs, celery_queue, users, magic_link_tokens>>
    /\ UNCHANGED <<crawlVars, docVars, classifyVars, jobVars, recVars, sizeVars>>

\* update_job_progress(session_maker, job_id, status=..., ...): the rows of
\* generation_jobs after it, the job being changed only if it is found
update_job_progress(job_id, status, llmstxt_content, assessment_json, error_message) ==
    [i \in 1..Len(generation_jobs) |->
        IF generation_jobs[i].id = job_id
        THEN [generation_jobs[i] EXCEPT
                !.status = status,
                !.llmstxt_content = IF llmstxt_content = NoResult THEN @ ELSE llmstxt_content,
                !.assessment_json = IF assessment_json = NoResult THEN @ ELSE assessment_json,
                !.error_message = IF error_message = NoResult THEN @ ELSE error_message]
        ELSE generation_jobs[i]]

\* the stages of a task in their order; the paid task also assesses
TaskStages(task) ==
    IF task = "generate_paid_task"
    THEN <<"received", "crawling", "extracting", "analyzing", "generating", "assessing">>
    ELSE <<"received", "crawling", "extracting", "analyzing", "generating">>

StageIndex(task, stage) == CHOOSE n \in 1..Len(TaskStages(task)) : TaskStages(task)[n] = stage

\* the tasks that are running: they sit in calls after the requests
Running(k) ==
    /\ k \in 1..Len(calls)
    /\ calls[k].kind = "task"
    /\ calls[k].pc \in {TaskStages(calls[k].task)[n] : n \in 1..Len(TaskStages(calls[k].task))}

\* a worker takes the next message from the queue and calls the task
WorkerReceive ==
    /\ celery_queue # <<>>
    /\ calls' = Append(calls, [kind |-> "task", task |-> Head(celery_queue).task,
                               job_id |-> Head(celery_queue).job_id, pc |-> "received",
                               status_code |-> 0])
    /\ celery_queue' = Tail(celery_queue)
    /\ UNCHANGED <<generation_jobs, users, magic_link_tokens, api_log>>
    /\ UNCHANGED <<crawlVars, docVars, classifyVars, jobVars, recVars, sizeVars>>

\* tasks/generate.py:54-113 and 157-281   a stage ends without an exception:
\* the first update sets status processing, the last one status completed
\* with the content, and for the paid task the assessment
TaskAdvance(k) ==
    /\ Running(k)
    /\ LET task == calls[k].task
           n == StageIndex(task, calls[k].pc)
       IN  IF n = Len(TaskStages(task))
           THEN /\ \E task_assessment \in StoredAssessments :
                      generation_jobs' =
                          update_job_progress(calls[k].job_id, "completed", AssessHeader,
                                              IF task = "generate_paid_task"
                                              THEN task_assessment ELSE NoResult,
                                              NoResult)
                /\ calls' = [calls EXCEPT ![k].pc = "succeeded"]
           ELSE /\ generation_jobs' =
                      IF n = 1
                      THEN update_job_progress(calls[k].job_id, "processing",
                                               NoResult, NoResult, NoResult)
                      ELSE generation_jobs
                /\ calls' = [calls EXCEPT ![k].pc = TaskStages(task)[n + 1]]
    /\ UNCHANGED <<celery_queue, users, magic_link_tokens, api_log>>
    /\ UNCHANGED <<crawlVars, docVars, classifyVars, jobVars, recVars, sizeVars>>

\* tasks/generate.py:117-128 and 283-295   a stage raises an Exception: the
\* handler sets status failed with the error message and raises again
TaskRaises(k) ==
    /\ Running(k)
    /\ calls[k].pc # "received"
    /\ generation_jobs' =
          update_job_progress(calls[k].job_id, "failed", NoResult, NoResult,
                              <<"Crawl", " ", "failed">>)
    /\ calls' = [calls EXCEPT ![k].pc = "raised"]
    /\ UNCHANGED <<celery_queue, users, magic_link_tokens, api_log>>
    /\ UNCHANGED <<crawlVars, docVars, classifyVars, jobVars, recVars, sizeVars>>

\* tasks/celery.py:27   task_time_limit: the process that runs the task is
\* killed, and no handler of the task runs
TaskKilled(k) ==
    /\ Running(k)
    /\ calls[k].pc # "received"
    /\ calls' = [calls EXCEPT ![k].pc = "killed"]
    /\ UNCHANGED <<generation_jobs, celery_queue, users, magic_link_tokens, api_log>>
    /\ UNCHANGED <<crawlVars, docVars, classifyVars, jobVars, recVars, sizeVars>>

TaskRequests ==
    {FreeCall} \cup {PaidCall("generate_paid", p, NoUser) : p \in {"pi_plain", "pi_unpaid"}}

InitTask ==
    /\ CrawlIdle
    /\ DocIdle
    /\ ClassifyIdle
    /\ JobIdle
    /\ RecIdle
    /\ SizeIdle
    /\ generation_jobs = <<>>
    /\ celery_queue = <<>>
    /\ users = {}
    /\ magic_link_tokens = <<>>
    /\ calls \in [1..NumTaskCalls -> TaskRequests]
    /\ api_log = <<>>

\* a task is at most the (2 * NumTaskCalls)th entry of calls
NextTask ==
    \/ \E c \in 1..NumTaskCalls :
          \/ FreeCommit(c)
          \/ QueueFreeTask(c)
          \/ PaidCheckExisting(c)
          \/ PaidVerify(c)
          \/ PaidCommit(c)
          \/ QueuePaidTask(c)
          \/ DelayRaises(c)
    \/ WorkerReceive
    \/ \E k \in 1..(2 * NumTaskCalls) :
          \/ TaskAdvance(k)
          \/ TaskRaises(k)
          \/ TaskKilled(k)

SpecTask == InitTask /\ [][NextTask]_vars

\* the event loop runs every request on, a worker takes every queued message,
\* and a task that is neither killed nor raises goes on to its next stage
FairSpecTask ==
    /\ SpecTask
    /\ \A c \in 1..NumTaskCalls :
          /\ WF_vars(FreeCommit(c))
          /\ WF_vars(QueueFreeTask(c) \/ DelayRaises(c))
          /\ WF_vars(PaidCheckExisting(c))
          /\ WF_vars(PaidVerify(c))
          /\ WF_vars(PaidCommit(c))
          /\ WF_vars(QueuePaidTask(c) \/ DelayRaises(c))
    /\ WF_vars(WorkerReceive)
    /\ \A k \in 1..(2 * NumTaskCalls) : WF_vars(TaskAdvance(k) \/ TaskRaises(k))

Terminal == {"completed", "failed"}

\* the job of a task
JobOf(k) == generation_jobs[CHOOSE i \in 1..Len(generation_jobs) :
                                generation_jobs[i].id = calls[k].job_id]

JobContents ==
    /\ \A i \in 1..Len(generation_jobs) :
          LET row == generation_jobs[i] IN
          /\ row.status = "completed" =>
                /\ row.llmstxt_content # NoResult
                /\ row.tier = "paid" => row.assessment_json # NoResult
          /\ row.status = "failed" => row.error_message # NoResult
    /\ \A k \in 1..Len(calls) :
          (calls[k].kind = "task" /\ calls[k].pc = "raised") => JobOf(k).status = "failed"

StatusMoves ==
    \A i \in 1..Len(generation_jobs) :
        \/ generation_jobs'[i].status = generation_jobs[i].status
        \/ <<generation_jobs[i].status, generation_jobs'[i].status>> \in
              {<<"pending", "processing">>, <<"processing", "completed">>,
               <<"processing", "failed">>}

====
